---- MODULE Spec2Model ----
(***************************************************************************)
(* A model of the generation services of the flashcard backend:            *)
(* GroqService, MLXAIService, OllamaAIService and the legacy AIService.    *)
(* One call of one public operation is followed from its entry to its      *)
(* outcome (a returned result, or an exception that reaches the caller).   *)
(* The variables svc to calls are the call that is running; service is the *)
(* fields of the service instance the call is made on, and other the call  *)
(* that waits while this one runs, when two calls share the instance.      *)
(*                                                                         *)
(* Representation of Python values                                         *)
(*   - a str is a TLA+ string; accented letters of the literals in the     *)
(*     source are written unaccented;                                      *)
(*   - None is the string NoneV, a missing dict key is the string Absent;  *)
(*   - a value that is a list or missing is a record [tag, items];         *)
(*   - the provider text is kept as the document it spells (BaseDoc),     *)
(*     keys in the order of the prompt's schema, "id" first in every card, *)
(*     written on one line (layout "line", json.dumps) or one member and   *)
(*     one list item per line (layout "indent", json.dumps with indent).   *)
(***************************************************************************)
EXTENDS Integers, Sequences, FiniteSets, TLC

VARIABLES svc, op, words, config, args, text, pc, resp, cand, idx, result, outcome, path, calls,
          service, other

vars == <<svc, op, words, config, args, text, pc, resp, cand, idx, result, outcome, path, calls,
          service, other>>

----------------------------------------------------------------------------
(* Bounds of the model *)

MaxWords == 2

MaxCount == 2

MaxCards == 2

MaxLen == 4

----------------------------------------------------------------------------
(* Python values *)

NoneV == "<None>"

Absent == "<absent>"

NoList == [tag |-> "absent", items |-> <<>>]

NullList == [tag |-> "null", items |-> <<>>]

ListOf(s) == [tag |-> "list", items |-> s]

Min(a, b) == IF a <= b THEN a ELSE b

Max(a, b) == IF a >= b THEN a ELSE b

\* Python's s[:k]: the first k elements, or all but the last -k when k < 0.
Take(s, k) ==
    LET n == IF k >= 0 THEN Min(k, Len(s)) ELSE Max(Len(s) + k, 0)
    IN  SubSeq(s, 1, n)

Range(s) == {s[i] : i \in 1..Len(s)}

RECURSIVE SumTimeLimit(_)
SumTimeLimit(cs) ==
    IF cs = <<>> THEN 0 ELSE cs[1].timeLimit + SumTimeLimit(Tail(cs))

CountDifficulty(cs, d) == Cardinality({i \in 1..Len(cs) : cs[i].difficulty = d})

\* The permutations random.shuffle can leave a 4-element list in.
Perms4 == {p \in [1..4 -> 1..4] : \A i, j \in 1..4 : i # j => p[i] # p[j]}

Shuffled(s, p) == [i \in 1..Len(s) |-> s[p[i]]]

----------------------------------------------------------------------------
(* Request inputs: WordData and SessionConfig of app/schemas/ai_schemas.py *)

Services == {"groq", "mlx", "ollama", "openai", "legacy"}

WordPool ==
    { [text |-> "dog", translation |-> "chien", context |-> "The dog barks",
       masteryLevel |-> "NEW"],
      [text |-> "hello", translation |-> NoneV, context |-> "hello there",
       masteryLevel |-> "LEARNING"],
      [text |-> "house", translation |-> "maison", context |-> NoneV,
       masteryLevel |-> "FAMILIAR"],
      [text |-> "cat", translation |-> NoneV, context |-> NoneV,
       masteryLevel |-> "MASTERED"] }

Texts == {w.text : w \in WordPool}

WordLists == UNION {[1..n -> WordPool] : n \in 0..MaxWords}

TypeLists ==
    { <<"classic">>, <<"contextual">>, <<"classic", "contextual">>,
      <<"audio", "speed">>, <<"classic", "contextual", "audio", "speed">> }

Counts == (0 - 1)..MaxCount

Configs == [types : TypeLists, count : Counts, isPremium : BOOLEAN]

----------------------------------------------------------------------------
(* The provider's answer to a flashcard prompt.                            *)
(*   kind "fail"    : the provider call raises (timeout, non-2xx, ...)     *)
(*   kind "garbage" : text without any JSON in it                          *)
(*   kind "doc"     : one-line JSON text spelling sessionId?, cards?,      *)
(*                    metadata?; with wellFormed = FALSE its last          *)
(*                    character (the closing brace) is missing.            *)

QPlain == "Que signifie 'dog' ?"

QBlank == "The _____ barks"

GoodOptions == <<"chien", "chat", "loup", "ours">>

\* A card as the prompt's schema asks for it, at position i of "cards".
FreeCard(i) ==
    [id |-> "card_" \o ToString(i), wordId |-> "word_dog", type |-> "classic",
     question |-> QPlain, answer |-> "chien", options |-> ListOf(GoodOptions),
     difficulty |-> "easy", timeLimit |-> 15000]

\* The option lists a provider card may carry instead of GoodOptions.
OptionDefects ==
    { NoList, NullList, ListOf(<<>>),
      ListOf(<<"chat", "loup">>),
      ListOf(<<"chien", "chat">>),
      ListOf(<<"chat", "loup", "ours", "lion", "chien">>),
      ListOf(<<"chien", "chat", "loup", "ours", "lion">>),
      ListOf(<<"chien", NoneV, "", "chat">>),
      ListOf(<<"chien", "chat", "chat", "loup">>),
      ListOf(<<"chien", "option2">>) }

\* The cards that differ from c in exactly one field.
CardDefects(c) ==
       {[c EXCEPT !.id = Absent]}
    \cup {[c EXCEPT !.wordId = v] : v \in {Absent, NoneV, ""}}
    \cup {[c EXCEPT !.type = v] : v \in {Absent, "contextual", "audio"}}
    \cup {[c EXCEPT !.question = v] : v \in {Absent, "", QBlank}}
    \cup {[c EXCEPT !.answer = v] : v \in {Absent, ""}}
    \cup {[c EXCEPT !.options = v] : v \in OptionDefects}
    \cup {[c EXCEPT !.difficulty = v] : v \in {Absent, "hard"}}
    \cup {[c EXCEPT !.timeLimit = 20000]}

NoMeta == [present |-> FALSE, totalCards |-> 0, estimatedTime |-> 0,
           easy |-> 0, medium |-> 0, hard |-> 0]

\* The summary the prompt's schema shows for n cards.
SchemaMeta(n) == [present |-> TRUE, totalCards |-> n, estimatedTime |-> n * 15,
                  easy |-> n, medium |-> 0, hard |-> 0]

\* The top-level keys of a JSON object that is not a flashcard document, and
\* the keys of its "flashcardSuggestion" object: none here.
NoFields == [f \in {} |-> Absent]

NoSuggestion == [question |-> Absent, answer |-> Absent, options |-> NoList]

BaseDoc(cs) ==
    [kind |-> "doc", wellFormed |-> TRUE, sessionKey |-> TRUE, cardsKey |-> TRUE,
     cards |-> cs, meta |-> SchemaMeta(Len(cs)), fields |-> NoFields,
     suggestion |-> NoSuggestion, layout |-> "line"]

SchemaCards(n) == [i \in 1..n |-> FreeCard(i)]

\* The documents that differ from d in exactly one place.
DocDefects(d) ==
       {[d EXCEPT !.wellFormed = FALSE]}
    \cup {[d EXCEPT !.cardsKey = FALSE, !.cards = <<>>]}
    \cup {[d EXCEPT !.meta = NoMeta]}
    \cup {[d EXCEPT !.meta = SchemaMeta(Len(d.cards) + 1)]}
    \cup UNION {{[d EXCEPT !.cards[i] = c] : c \in CardDefects(d.cards[i])} :
                    i \in 1..Len(d.cards)}

FailResp == [BaseDoc(<<>>) EXCEPT !.kind = "fail"]

GarbageResp == [BaseDoc(<<>>) EXCEPT !.kind = "garbage"]

\* Every document is the schema's, with or without "sessionId", with at
\* most one defect, in either layout.
Docs ==
    LET bases == {[BaseDoc(SchemaCards(n)) EXCEPT !.sessionKey = sk] :
                      n \in 0..MaxCards, sk \in BOOLEAN}
        docs == bases \cup UNION {DocDefects(d) : d \in bases}
    IN  {[d EXCEPT !.layout = l] : d \in docs, l \in {"line", "indent"}}

Responses == {FailResp, GarbageResp} \cup Docs

----------------------------------------------------------------------------
(* GroqService: helpers *)

\* _get_basic_translation, with the rows of its table for the texts of WordPool.
get_basic_translation(word) ==
    CASE word = "hello" -> "bonjour"
      [] word = "house" -> "maison"
      [] OTHER -> "traduction de " \o word

DistractorTable ==
    << <<"famille", "ami", "maison", "temps">>,
       <<"bonjour", "merci", "eau", "livre">>,
       <<"grand", "petit", "bon", "nouveau">>,
       <<"aller", "voir", "manger", "parler">> >>

\* _get_distractor_option: distractors[index-1][hash(word) % 4]; h is
\* hash(word) % 4, which differs from one process to the next.
get_distractor_option(h, index) == DistractorTable[index][h + 1]

common_distractors ==
    [think |-> <<"believe", "know", "feel">>, arm |-> <<"hand", "leg", "foot">>,
     decaf |-> <<"regular", "strong", "black">>, of |-> <<"from", "with", "by">>,
     motto |-> <<"slogan", "phrase", "saying">>, tiger |-> <<"lion", "leopard", "panther">>,
     tear |-> <<"rip", "break", "cut">>, bored |-> <<"tired", "excited", "happy">>,
     hello |-> <<"goodbye", "thanks", "sorry">>, world |-> <<"planet", "earth", "globe">>,
     love |-> <<"hate", "like", "enjoy">>, book |-> <<"magazine", "newspaper", "novel">>,
     water |-> <<"juice", "milk", "coffee">>, groaning |-> <<"moaning", "crying", "shouting">>,
     brainless |-> <<"mindless", "thoughtless", "careless">>,
     fantasy |-> <<"reality", "dream", "story">>, applause |-> <<"silence", "booing", "cheering">>]

\* _get_contextual_distractors (answer.lower() is the answer itself for every
\* answer of the model that is a key of the table; the row "don't" is left out).
\* "barking" is the answer of the model that ends in "ing", "barked" the one
\* that ends in "ed".
get_contextual_distractors(answer) ==
    IF answer \in DOMAIN common_distractors THEN common_distractors[answer]
    ELSE IF Len(answer) <= 4 THEN <<"word", "item", "thing">>
    ELSE IF answer \in {"barking"} THEN <<"running", "walking", "talking">>
    ELSE IF answer \in {"barked"} THEN <<"played", "worked", "lived">>
    ELSE <<"something", "anything", "nothing">>

\* "option" in str(opt).lower() or "incorrecte" in str(opt).lower(), for the
\* option strings of the model.
IsGeneric(opt) ==
    opt \in {"option1", "option2", "option3", "option4"}
             \cup {"Option " \o ToString(k) : k \in 1..5}
             \cup {"Option incorrecte " \o ToString(k) : k \in 1..3}

\* wordId.replace("word_", "") for the word ids of the model.
StripWord(wid) ==
    IF \E t \in Texts \cup {ToString(k) : k \in 1..9} : wid = "word_" \o t
    THEN CHOOSE t \in Texts \cup {ToString(k) : k \in 1..9} : wid = "word_" \o t
    ELSE wid

CompleteQuestion(wordText) == "Complete the sentence: 'The " \o wordText \o " was _____'"

\* "_____" in question, for the questions of the model.
HasBlank(q) ==
    \/ q = QBlank
    \/ \E t \in Texts \cup {ToString(k) : k \in 1..9} : q = CompleteQuestion(t)

IsStr(v) == v # Absent /\ v # NoneV

\* The least j in from..Len(hits) with hits[j], or 0.
FirstFrom(hits, from) ==
    LET js == {j \in from..Len(hits) : hits[j]}
    IN  IF js = {} THEN 0 ELSE CHOOSE j \in js : \A k \in js : j <= k

----------------------------------------------------------------------------
(* GroqService._rebuild_json_structure *)

\* re.search of  (?:.*ID.*?"f":\s*"([^"]*)")|(?:"f":\s*"([^"]*)".*?ID)  for the
\* id of card i, then  group(1) or group(2):  the nearest "f": "..." after the
\* id, of whichever card, an empty capture read as None; failing that, the
\* first "f": "..." of the text.
Captured(cs, i, f) ==
    LET hits == [j \in 1..Len(cs) |-> IsStr(cs[j][f])]
        j1   == FirstFrom(hits, i)
        j0   == FirstFrom(hits, 1)
    IN  IF j1 # 0 THEN (IF cs[j1][f] = "" THEN NoneV ELSE cs[j1][f])
        ELSE IF j0 # 0 THEN cs[j0][f]
        ELSE Absent

\* re.findall(r'"([^"]*)"', options_str)[:4]: the quoted entries, null left out.
QuotedEntries(items) == Take(SelectSeq(items, LAMBDA x : x # NoneV), 4)

\* The same search for "options": [...]; an empty capture of the first
\* alternative makes options_str None and re.findall raise TypeError.
CapturedOptions(cs, i) ==
    LET hits == [j \in 1..Len(cs) |-> cs[j].options.tag = "list"]
        j1   == FirstFrom(hits, i)
        j0   == FirstFrom(hits, 1)
    IN  IF j1 # 0
        THEN IF cs[j1].options.items = <<>>
             THEN [err |-> TRUE, val |-> NoList]
             ELSE [err |-> FALSE, val |-> ListOf(QuotedEntries(cs[j1].options.items))]
        ELSE IF j0 # 0
        THEN [err |-> FALSE, val |-> ListOf(QuotedEntries(cs[j0].options.items))]
        ELSE [err |-> FALSE, val |-> NoList]

RebuildCard(cs, i) ==
    [id |-> cs[i].id, wordId |-> Captured(cs, i, "wordId"), type |-> "contextual",
     question |-> Captured(cs, i, "question"), answer |-> Captured(cs, i, "answer"),
     options |-> CapturedOptions(cs, i).val,
     difficulty |-> "medium", timeLimit |-> 15000]

\* The card is appended only with "question" and "answer" among its keys.
Essential(card) == card.question # Absent /\ card.answer # Absent

\* TypeError: from re.findall, or from slicing a None question for the log line.
RebuildRaises(cs) ==
    \E i \in 1..Len(cs) :
        /\ cs[i].id # Absent
        /\ \/ CapturedOptions(cs, i).err
           \/ Essential(RebuildCard(cs, i)) /\ RebuildCard(cs, i).question = NoneV

rebuild_json_structure(doc) ==
    LET cs     == doc.cards
        ids    == SelectSeq([i \in 1..Len(cs) |-> i], LAMBDA i : cs[i].id # Absent)
        all    == [k \in 1..Len(ids) |-> RebuildCard(cs, ids[k])]
        cards  == SelectSeq(all, Essential)
        n      == Len(cards)
    IN  [sessionId |-> "s1", cardsKey |-> TRUE, cards |-> cards,
         meta |-> [present |-> TRUE, totalCards |-> n, estimatedTime |-> n * 15,
                   easy |-> n, medium |-> 0, hard |-> 0]]

----------------------------------------------------------------------------
(* GroqService.generate_flashcards: normalization of one parsed card *)

Missing(v) == v = Absent \/ v = NoneV \/ v = ""

\* card.get("wordId", f"word_{i+1}").replace("word_", ""), i counted from 1 here.
WordTextOf(card, i) ==
    StripWord(IF card.wordId = Absent THEN "word_" \o ToString(i) ELSE card.wordId)

FixedAnswer(card, i) ==
    IF Missing(card.answer)
    THEN IF WordTextOf(card, i) # "" THEN "Reponse pour " \o WordTextOf(card, i)
         ELSE "Reponse " \o ToString(i)
    ELSE card.answer

FixedQuestion(card, i) ==
    IF Missing(card.question)
    THEN IF WordTextOf(card, i) # "" THEN "Que signifie '" \o WordTextOf(card, i) \o "' ?"
         ELSE "Question " \o ToString(i)
    ELSE card.question

NoOptions(card) == card.options.tag # "list" \/ card.options.items = <<>>

AnyGeneric(card) == \E k \in 1..Len(card.options.items) : IsGeneric(card.options.items[k])

\* random.shuffle is called for this card.
NeedsShuffle(card) == card.type = "contextual" /\ (NoOptions(card) \/ AnyGeneric(card))

\* Lines 617-626: None and "" entries replaced, the list padded to 4, cut to 4.
PaddedOptions(items) ==
    LET fixed == [j \in 1..Len(items) |->
                     IF items[j] = NoneV \/ items[j] = "" THEN "Option " \o ToString(j)
                     ELSE items[j]]
        long  == [j \in 1..Max(4, Len(fixed)) |->
                     IF j <= Len(fixed) THEN fixed[j] ELSE "Option " \o ToString(j)]
    IN  Take(long, 4)

FixedOptions(card, i, perm) ==
    LET answer == FixedAnswer(card, i)
        fresh  == Shuffled(<<answer>> \o Take(get_contextual_distractors(answer), 3), perm)
    IN  IF NoOptions(card)
        THEN IF card.type = "contextual" THEN ListOf(fresh)
             ELSE ListOf(<<answer, "Option incorrecte 1", "Option incorrecte 2",
                           "Option incorrecte 3">>)
        ELSE IF AnyGeneric(card)
        THEN IF card.type = "contextual" THEN ListOf(fresh) ELSE card.options
        ELSE ListOf(PaddedOptions(card.options.items))

\* available_types == ["contextual"]
SingleContextual(types) == types = <<"contextual">>

ForcesQuestion(card, i, types) ==
    SingleContextual(types) /\ ~HasBlank(FixedQuestion(card, i))

\* AttributeError: None has no replace.
NormalizeRaises(card, i, types) ==
    /\ card.wordId = NoneV
    /\ Missing(card.answer) \/ Missing(card.question) \/ ForcesQuestion(card, i, types)

\* Lines 574-644 for the card at position i.
NormalizeCard(card, i, types, perm) ==
    LET forced == ForcesQuestion(card, i, types)
    IN  [id |-> card.id, wordId |-> card.wordId,
         type |-> IF SingleContextual(types) THEN "contextual" ELSE card.type,
         question |-> IF forced THEN CompleteQuestion(WordTextOf(card, i))
                      ELSE FixedQuestion(card, i),
         answer |-> IF forced THEN WordTextOf(card, i) ELSE FixedAnswer(card, i),
         options |-> FixedOptions(card, i, perm),
         difficulty |-> IF card.difficulty = Absent \/ card.difficulty = NoneV
                        THEN "easy" ELSE card.difficulty,
         timeLimit |-> card.timeLimit]

----------------------------------------------------------------------------
(* GroqService.generate_flashcards: the fallback cards *)

\* words_data[:min(count, len(words_data))]
SelectedWords(ws, cfg) == Take(ws, Min(cfg.count, Len(ws)))

\* word.get('translation') or self._get_basic_translation(word['text'])
TranslationOr(w) ==
    IF w.translation = NoneV \/ w.translation = "" THEN get_basic_translation(w.text)
    ELSE w.translation

GroqFallbackCard(w, i, types, h) ==
    IF SingleContextual(types)
    THEN [id |-> "card_" \o ToString(i), wordId |-> "word_" \o w.text,
          type |-> "contextual", question |-> CompleteQuestion(w.text),
          answer |-> w.text,
          options |-> ListOf(<<w.text, "Option incorrecte 1", "Option incorrecte 2",
                               "Option incorrecte 3">>),
          difficulty |-> "easy", timeLimit |-> 15000]
    ELSE [id |-> "card_" \o ToString(i), wordId |-> "word_" \o w.text,
          type |-> "classic", question |-> "Que signifie '" \o w.text \o "' ?",
          answer |-> TranslationOr(w),
          options |-> ListOf(<<TranslationOr(w), get_distractor_option(h, 1),
                               get_distractor_option(h, 2), get_distractor_option(h, 3)>>),
          difficulty |-> "easy", timeLimit |-> 15000]

\* hf gives hash(text) % 4 for every text of the batch.
GroqFallbackCards(ws, cfg, hf) ==
    LET sel == SelectedWords(ws, cfg)
    IN  [i \in 1..Len(sel) |-> GroqFallbackCard(sel[i], i, cfg.types, hf[sel[i].text])]

----------------------------------------------------------------------------
(* Results *)

NoResult ==
    [shape |-> "none", sessionId |-> Absent, cardsKey |-> FALSE, cards |-> <<>>,
     meta |-> NoMeta, fallback |-> FALSE, error |-> Absent,
     flashcards |-> <<>>, totalCount |-> 0, studyTime |-> 0,
     fields |-> NoFields, suggestion |-> NoSuggestion]

\* A dict with sessionId?, cards?, metadata?, and the keys "fallback" (True)
\* and "error" when the code sets them.
SessionResult(sid, ck, cs, m, fb, er) ==
    [NoResult EXCEPT !.shape = "session", !.sessionId = sid, !.cardsKey = ck,
                     !.cards = cs, !.meta = m, !.fallback = fb, !.error = er]

\* The dict OllamaAIService.generate_flashcards returns.
FlashcardsResult(fs, n, t) ==
    [NoResult EXCEPT !.shape = "flashcards", !.flashcards = fs, !.totalCount = n,
                     !.studyTime = t]

CountedMeta(n) == [present |-> TRUE, totalCards |-> n, estimatedTime |-> n * 15,
                   easy |-> n, medium |-> 0, hard |-> 0]

NoCand == [sessionId |-> Absent, cardsKey |-> FALSE, cards |-> <<>>, meta |-> NoMeta]

----------------------------------------------------------------------------
(* FlashcardGenerator, used by the legacy AIService *)

\* SessionConfig.userLevel keeps its default in every request of the model.
UserLevel == "A2"

IndexError == "<IndexError>"

select_card_type(mastery, types, premium) ==
    LET avail == IF ~premium
                 THEN SelectSeq(types, LAMBDA t : t \in {"classic", "contextual"})
                 ELSE types
    IN  CASE mastery = "NEW" ->
               IF "classic" \in Range(avail) THEN "classic"
               ELSE IF avail = <<>> THEN IndexError ELSE avail[1]
          [] mastery = "LEARNING" ->
               IF "contextual" \in Range(avail) THEN "contextual"
               ELSE IF avail = <<>> THEN IndexError ELSE avail[1]
          [] mastery = "FAMILIAR" ->
               IF "audio" \in Range(avail) THEN "audio" ELSE "contextual"
          [] OTHER ->
               IF "speed" \in Range(avail) THEN "speed" ELSE "audio"

map_level_to_difficulty(level) ==
    CASE level \in {"A1", "A2"} -> "easy"
      [] level \in {"B1", "B2"} -> "medium"
      [] level \in {"C1", "C2"} -> "hard"
      [] OTHER -> "medium"

generate_translation_distractors(answer) ==
    CASE answer = "bonjour" -> <<"bonsoir", "au revoir", "salut">>
      [] answer = "au revoir" -> <<"bonjour", "a bientot", "merci">>
      [] answer = "merci" -> <<"pardon", "s'il vous plait", "de rien">>
      [] answer = "oui" -> <<"non", "peut-etre", "bien sur">>
      [] answer = "non" -> <<"oui", "jamais", "pas du tout">>
      [] OTHER -> <<"option1", "option2", "option3">>

generate_english_distractors(answer) ==
    CASE answer = "hello" -> <<"goodbye", "thanks", "sorry">>
      [] answer = "goodbye" -> <<"hello", "welcome", "please">>
      [] answer = "thank you" -> <<"excuse me", "you're welcome", "sorry">>
      [] answer = "yes" -> <<"no", "maybe", "sure">>
      [] answer = "no" -> <<"yes", "never", "not at all">>
      [] OTHER -> <<"word1", "word2", "word3">>

\* "hello" in word.lower() / "thank" in word.lower(), on the words of the pool.
generate_contextual_distractors(word) ==
    CASE word = "hello" -> <<"goodbye", "thanks", "sorry">>
      [] word = "thank" -> <<"hello", "goodbye", "excuse me">>
      [] OTHER -> <<"option1", "option2", "option3">>

generate_phonetic_distractors(word) ==
    CASE word = "hello" -> <<"halo", "hollow", "hero">>
      [] word = "goodbye" -> <<"good buy", "good by", "good bye">>
      [] word = "thank" -> <<"think", "thick", "thunk">>
      [] OTHER -> <<"sound1", "sound2", "sound3">>

\* context.replace(word, "_____", 1) on the contexts of the pool; every
\* context of the pool holds its word.
BlankContext(w) ==
    CASE w.text = "dog" /\ w.context = "The dog barks" -> "The _____ barks"
      [] w.text = "hello" /\ w.context = "hello there" -> "_____ there"
      [] OTHER -> "_____, how are you today?"

\* f"...{value}..." prints None for a missing translation.
Shown(v) == IF v = NoneV THEN "None" ELSE v

\* AttributeError: None has no lower.
ClassicRaises(w, subtype) ==
    subtype = "translation_to_french" /\ w.translation = NoneV

generate_classic_card(w, cid, subtype, perm) ==
    LET toFrench == subtype = "translation_to_french"
        answer == IF toFrench THEN w.translation ELSE w.text
        distractors == IF toFrench THEN generate_translation_distractors(answer)
                       ELSE generate_english_distractors(answer)
    IN  [id |-> cid, wordId |-> "word_" \o w.text, type |-> "classic",
         question |-> IF toFrench THEN "Que signifie '" \o w.text \o "' ?"
                      ELSE "Comment dit-on '" \o Shown(w.translation) \o "' en anglais ?",
         answer |-> answer,
         options |-> ListOf(Shuffled(<<answer>> \o Take(distractors, 3), perm)),
         difficulty |-> map_level_to_difficulty(UserLevel), timeLimit |-> 15000]

ContextualRaises(w) == w.context = NoneV

generate_contextual_card(w, cid, subtype, perm) ==
    LET answer == IF subtype = "situation_match" THEN "Saluer quelqu'un" ELSE w.text
        distractors ==
            CASE subtype = "fill_in_blank" -> generate_contextual_distractors(w.text)
              [] subtype = "context_completion" ->
                   <<"situation1", "situation2", "situation3">>
              [] OTHER -> <<"Dire au revoir", "Remercier", "S'excuser">>
    IN  [id |-> cid, wordId |-> "word_" \o w.text, type |-> "contextual",
         question |->
            CASE subtype = "fill_in_blank" ->
                   "Completez la phrase : '" \o BlankContext(w) \o "'"
              [] subtype = "context_completion" ->
                   "Dans cette situation : '" \o w.context
                       \o "', quel mot convient le mieux ?"
              [] OTHER -> "Quelle situation correspond a '" \o w.text \o "' ?",
         answer |-> answer,
         options |-> ListOf(Shuffled(<<answer>> \o Take(distractors, 3), perm)),
         difficulty |-> map_level_to_difficulty(UserLevel), timeLimit |-> 20000]

AudioRaises(w, subtype) ==
    subtype = "pronunciation_recognition" /\ w.translation = NoneV

generate_audio_card(w, cid, subtype, perm) ==
    LET recog == subtype = "pronunciation_recognition"
        answer == IF recog THEN w.translation ELSE w.text
        distractors == IF recog THEN generate_translation_distractors(answer)
                       ELSE generate_phonetic_distractors(w.text)
    IN  [id |-> cid, wordId |-> "word_" \o w.text, type |-> "audio",
         question |-> IF recog THEN "Ecoutez et choisissez la bonne traduction"
                      ELSE "Ecoutez et ecrivez ce que vous entendez",
         answer |-> answer,
         options |-> ListOf(Shuffled(<<answer>> \o Take(distractors, 3), perm)),
         difficulty |-> map_level_to_difficulty(UserLevel), timeLimit |-> 25000]

\* The speed card has no "options" key.
generate_speed_card(w, cid, subtype) ==
    [id |-> cid, wordId |-> "word_" \o w.text, type |-> "speed",
     question |-> IF subtype = "rapid_translation" THEN w.text
                  ELSE "Memorisez: " \o w.text \o " = " \o Shown(w.translation),
     answer |-> w.translation, options |-> NoList, difficulty |-> "hard",
     timeLimit |-> IF subtype = "rapid_translation" THEN 2000 + 3000 ELSE 3000 + 2000]

----------------------------------------------------------------------------
(* Legacy AIService.generate_flashcards: one card *)

\* words_data[:target_count], target_count being the requested count itself.
LegacySelected(ws, cfg) == Take(ws, cfg.count)

\* The if/elif chain of lines 102-112.
GeneratorFor(ctype, premium) ==
    CASE ctype = "classic" -> "classic"
      [] ctype = "contextual" -> "contextual"
      [] ctype = "audio" /\ premium -> "audio"
      [] ctype = "speed" /\ premium -> "speed"
      [] OTHER -> "classic"

\* random.choice(subtypes[:2]) of lines 34-35, 124-125 and 163-164,
\* random.choice(subtypes) of lines 85-86.
SubtypesOf(gen) ==
    CASE gen = "classic" -> {"translation_to_french", "french_to_english"}
      [] gen = "contextual" -> {"fill_in_blank", "context_completion", "situation_match"}
      [] gen = "audio" -> {"pronunciation_recognition", "listen_translate"}
      [] OTHER -> {"rapid_translation", "flash_memory"}

Identity4 == [i \in 1..4 |-> i]

\* The orders random.shuffle can leave; the speed card shuffles nothing.
ShufflesOf(gen) == IF gen = "speed" THEN {Identity4} ELSE Perms4

GeneratorRaises(w, gen, subtype) ==
    CASE gen = "classic" -> ClassicRaises(w, subtype)
      [] gen = "contextual" -> ContextualRaises(w)
      [] gen = "audio" -> AudioRaises(w, subtype)
      [] OTHER -> FALSE

GeneratedCard(w, cid, gen, subtype, perm) ==
    CASE gen = "classic" -> generate_classic_card(w, cid, subtype, perm)
      [] gen = "contextual" -> generate_contextual_card(w, cid, subtype, perm)
      [] gen = "audio" -> generate_audio_card(w, cid, subtype, perm)
      [] OTHER -> generate_speed_card(w, cid, subtype)

\* metadata of lines 118-131, from the cards built.
LegacyMeta(cs) ==
    [present |-> TRUE, totalCards |-> Len(cs),
     estimatedTime |-> SumTimeLimit(cs) \div 1000,
     easy |-> CountDifficulty(cs, "easy"), medium |-> CountDifficulty(cs, "medium"),
     hard |-> CountDifficulty(cs, "hard")]

----------------------------------------------------------------------------
(* Text helpers of the services. A text is a sequence of characters, a      *)
(* character a string of length 1.                                         *)

\* The characters \s matches, among those of the model's alphabets.
Space == {" ", "\n"}

\* The end of a greedy \s* that starts at i.
RECURSIVE SkipSpace(_, _)
SkipSpace(t, i) == IF i <= Len(t) /\ t[i] \in Space THEN SkipSpace(t, i + 1) ELSE i

\* GroqService._fix_json_syntax
fix_json_syntax(json_str) ==
    LET \* Line 289: re.sub(r',(\s*[}\]])', r'\1', t), from position i on.
        RECURSIVE DropTrailingCommas(_, _)
        DropTrailingCommas(t, i) ==
            IF i > Len(t) THEN <<>>
            ELSE LET j == SkipSpace(t, i + 1)
                 IN  IF t[i] = "," /\ j <= Len(t) /\ t[j] \in {"}", "]"}
                     THEN SubSeq(t, i + 1, j) \o DropTrailingCommas(t, j + 1)
                     ELSE <<t[i]>> \o DropTrailingCommas(t, i + 1)
        \* Lines 292-299 and 334-336: re.sub of a, \s*, b by a, sep, b from
        \* position i on; with nl the space between a and b has to hold a
        \* line break (\s*\n\s*).
        RECURSIVE Separate(_, _, _, _, _, _)
        Separate(t, i, a, b, sep, nl) ==
            IF i > Len(t) THEN <<>>
            ELSE LET j == SkipSpace(t, i + 1)
                 IN  IF /\ t[i] = a /\ j <= Len(t) /\ t[j] = b
                        /\ nl => \E k \in (i + 1)..(j - 1) : t[k] = "\n"
                     THEN <<a>> \o sep \o <<b>> \o Separate(t, j + 1, a, b, sep, nl)
                     ELSE <<t[i]>> \o Separate(t, i + 1, a, b, sep, nl)
        \* The position of the first double quote at or after i, Len(t) + 1
        \* if there is none.
        RECURSIVE NextQuote(_, _)
        NextQuote(t, i) == IF i <= Len(t) /\ t[i] # "\"" THEN NextQuote(t, i + 1) ELSE i
        \* Line 302: re.sub(r'"\s*"([^"]*)":', r'","\1":', t), from i on.
        RECURSIVE SeparateKeys(_, _)
        SeparateKeys(t, i) ==
            IF i > Len(t) THEN <<>>
            ELSE LET j == SkipSpace(t, i + 1)
                     k == NextQuote(t, j + 1)
                 IN  IF /\ t[i] = "\"" /\ j <= Len(t) /\ t[j] = "\""
                        /\ k + 1 <= Len(t) /\ t[k + 1] = ":"
                     THEN <<"\"", ",">> \o SubSeq(t, j, k + 1) \o SeparateKeys(t, k + 2)
                     ELSE <<t[i]>> \o SeparateKeys(t, i + 1)
        \* Line 305: t.split('\n'), from position i on.
        RECURSIVE LineEnd(_, _)
        LineEnd(t, j) == IF j <= Len(t) /\ t[j] # "\n" THEN LineEnd(t, j + 1) ELSE j
        RECURSIVE SplitLines(_, _)
        SplitLines(t, i) ==
            IF LineEnd(t, i) > Len(t) THEN <<SubSeq(t, i, Len(t))>>
            ELSE <<SubSeq(t, i, LineEnd(t, i) - 1)>> \o SplitLines(t, LineEnd(t, i) + 1)
        \* Line 311: line.strip()
        RECURSIVE Strip(_)
        Strip(l) ==
            IF l = <<>> THEN l
            ELSE IF Head(l) \in Space THEN Strip(Tail(l))
            ELSE IF l[Len(l)] \in Space THEN Strip(SubSeq(l, 1, Len(l) - 1))
            ELSE l
        \* Lines 310-329: the lines the loop keeps of ls, entered with
        \* in_object = inObj.
        RECURSIVE KeptLines(_, _)
        KeptLines(ls, inObj) ==
            IF ls = <<>> THEN <<>>
            ELSE LET line == Strip(Head(ls))
                     has(c) == \E i \in 1..Len(line) : line[i] = c
                     obj == IF has("}") THEN FALSE ELSE IF has("{") THEN TRUE ELSE inObj
                     orphan == /\ obj /\ has("\"") /\ ~has(":")
                               /\ line[Len(line)] \notin {",", "{", "}"}
                 IN  IF line = <<>> THEN KeptLines(Tail(ls), inObj)
                     ELSE IF orphan THEN KeptLines(Tail(ls), obj)
                     ELSE <<line>> \o KeptLines(Tail(ls), obj)
        \* Line 331: '\n'.join(ls)
        RECURSIVE JoinLines(_)
        JoinLines(ls) ==
            IF ls = <<>> THEN <<>>
            ELSE IF Len(ls) = 1 THEN ls[1]
            ELSE ls[1] \o <<"\n">> \o JoinLines(Tail(ls))
        s1 == DropTrailingCommas(json_str, 1)
        s2 == Separate(s1, 1, "}", "{", <<",">>, FALSE)
        s3 == Separate(s2, 1, "]", "[", <<",">>, FALSE)
        s4 == Separate(s3, 1, "}", "\"", <<",">>, FALSE)
        s5 == Separate(s4, 1, "]", "\"", <<",">>, FALSE)
        s6 == SeparateKeys(s5, 1)
        s7 == JoinLines(KeptLines(SplitLines(s6, 1), FALSE))
        s8 == Separate(s7, 1, "\"", "\"", <<",", "\n">>, TRUE)
        s9 == Separate(s8, 1, "}", "\"", <<",", "\n">>, TRUE)
    IN  Separate(s9, 1, "]", "\"", <<",", "\n">>, TRUE)

\* The JSON decoder behind json.loads, on a text of strings without
\* backslash, lists and objects (the texts of the model hold no number and no
\* literal). val is the value: a str a string, a list a sequence, a dict a
\* function from its keys, of a repeated key the last value. canon spells the
\* value without white space, the members of an object in the order of their
\* last occurrence. ok is FALSE for json.JSONDecodeError.
json_decode(c) ==
    LET n == Len(c)
        is(i, ch) == i <= n /\ c[i] = ch
        \* F of the value of x, x evaluated once.
        With(x, F(_)) == CHOOSE y \in {F(z) : z \in {x}} : TRUE
        RECURSIVE Str(_)
        Str(cs) == IF cs = <<>> THEN "" ELSE Head(cs) \o Str(Tail(cs))
        RECURSIVE StringEnd(_)
        StringEnd(i) == IF i <= n /\ c[i] \notin {"\"", "\n"} THEN StringEnd(i + 1) ELSE i
        fail == [ok |-> FALSE, kind |-> "none", val |-> NoneV, canon |-> "", end |-> n + 1]
        \* The string whose opening quote is at i.
        String(i) ==
            LET e == StringEnd(i + 1)
                v == Str(SubSeq(c, i + 1, e - 1))
            IN  IF is(e, "\"")
                THEN [ok |-> TRUE, kind |-> "str", val |-> v,
                      canon |-> "\"" \o v \o "\"", end |-> e + 1]
                ELSE fail
        noItems == [ok |-> FALSE, vals |-> <<>>, canon |-> "", end |-> n + 1]
        noMembers == [ok |-> FALSE, keys |-> <<>>, vals |-> <<>>, canons |-> <<>>,
                      end |-> n + 1]
        \* The object of the members r.
        Object(r) ==
            LET last(k) == \A m \in (k + 1)..Len(r.keys) : r.keys[m] # r.keys[k]
                kept == SelectSeq([k \in 1..Len(r.keys) |-> k], last)
                RECURSIVE Spell(_)
                Spell(ks) ==
                    IF ks = <<>> THEN ""
                    ELSE "\"" \o r.keys[Head(ks)] \o "\":" \o r.canons[Head(ks)]
                         \o (IF Len(ks) = 1 THEN "" ELSE ",") \o Spell(Tail(ks))
            IN  IF r.ok
                THEN [ok |-> TRUE, kind |-> "dict",
                      val |-> [k \in Range(r.keys) |->
                                 r.vals[CHOOSE m \in 1..Len(r.keys) :
                                           r.keys[m] = k /\ last(m)]],
                      canon |-> "{" \o Spell(kept) \o "}", end |-> r.end]
                ELSE fail
        RECURSIVE Value(_), Items(_), Members(_)
        \* The value that starts at i.
        Value(i) ==
            IF is(i, "\"") THEN String(i)
            ELSE IF is(i, "[")
            THEN LET p == SkipSpace(c, i + 1)
                     list(r) == IF r.ok
                                THEN [ok |-> TRUE, kind |-> "list", val |-> r.vals,
                                      canon |-> "[" \o r.canon \o "]", end |-> r.end]
                                ELSE fail
                 IN  IF is(p, "]")
                     THEN [ok |-> TRUE, kind |-> "list", val |-> <<>>, canon |-> "[]",
                           end |-> p + 1]
                     ELSE With(Items(p), list)
            ELSE IF is(i, "{")
            THEN LET p == SkipSpace(c, i + 1)
                 IN  IF is(p, "}")
                     THEN [ok |-> TRUE, kind |-> "dict", val |-> NoFields, canon |-> "{}",
                           end |-> p + 1]
                     ELSE With(Members(p), Object)
            ELSE fail
        \* The values of a list from i on, up to its "]".
        Items(i) ==
            LET item(v) ==
                    LET q == SkipSpace(c, v.end)
                        more(rest) ==
                            IF rest.ok
                            THEN [ok |-> TRUE, vals |-> <<v.val>> \o rest.vals,
                                  canon |-> v.canon \o "," \o rest.canon,
                                  end |-> rest.end]
                            ELSE noItems
                    IN  IF ~v.ok THEN noItems
                        ELSE IF is(q, "]")
                        THEN [ok |-> TRUE, vals |-> <<v.val>>, canon |-> v.canon,
                              end |-> q + 1]
                        ELSE IF is(q, ",") THEN With(Items(SkipSpace(c, q + 1)), more)
                        ELSE noItems
            IN  With(Value(i), item)
        \* The members of an object from i on, up to its "}".
        Members(i) ==
            LET k == String(i)
                colon == SkipSpace(c, k.end)
                member(v) ==
                    LET q == SkipSpace(c, v.end)
                        more(rest) ==
                            IF rest.ok
                            THEN [ok |-> TRUE, keys |-> <<k.val>> \o rest.keys,
                                  vals |-> <<v.val>> \o rest.vals,
                                  canons |-> <<v.canon>> \o rest.canons,
                                  end |-> rest.end]
                            ELSE noMembers
                    IN  IF ~v.ok THEN noMembers
                        ELSE IF is(q, "}")
                        THEN [ok |-> TRUE, keys |-> <<k.val>>, vals |-> <<v.val>>,
                              canons |-> <<v.canon>>, end |-> q + 1]
                        ELSE IF is(q, ",") THEN With(Members(SkipSpace(c, q + 1)), more)
                        ELSE noMembers
            IN  IF ~(is(i, "\"") /\ k.ok /\ is(colon, ":")) THEN noMembers
                ELSE With(Value(SkipSpace(c, colon + 1)), member)
        whole(top) == IF top.ok /\ SkipSpace(c, top.end) = n + 1 THEN top ELSE fail
    IN  With(Value(SkipSpace(c, 1)), whole)

\* json.loads: the parsed value, a dict as it is, any other value v as the
\* pair <<"<not a dict>", v>>.
json_loads(c) ==
    LET r == json_decode(c)
    IN  [ok |-> r.ok,
         object |-> IF ~r.ok THEN NoFields
                    ELSE IF r.kind = "dict" THEN r.val
                    ELSE <<"<not a dict>", r.val>>]

\* The character U+0060 of a code fence, which no TLA+ string can hold.
Backquote == "bq"

\* MLXAIService._extract_json: ok is FALSE when it raises.
extract_json(response) ==
    LET StartsWith(t, i, lit) ==
            i + Len(lit) - 1 <= Len(t) /\ SubSeq(t, i, i + Len(lit) - 1) = lit
        RECURSIVE Bar(_, _)
        Bar(t, i) == IF i <= Len(t) /\ t[i] # "|" THEN Bar(t, i + 1) ELSE i
        \* Line 62: re.sub(r'<\|[^\|]*\|>', '', t), from position i on.
        RECURSIVE DropTokens(_, _)
        DropTokens(t, i) ==
            IF i > Len(t) THEN <<>>
            ELSE IF /\ StartsWith(t, i, <<"<", "|">>)
                    /\ StartsWith(t, Bar(t, i + 2), <<"|", ">">>)
                 THEN DropTokens(t, Bar(t, i + 2) + 2)
                 ELSE <<t[i]>> \o DropTokens(t, i + 1)
        \* Lines 63-65: re.sub of lit, \s*, tail by tail, from position i on.
        RECURSIVE Drop(_, _, _, _)
        Drop(t, i, lit, tail) ==
            IF i > Len(t) THEN <<>>
            ELSE LET j == SkipSpace(t, i + Len(lit))
                 IN  IF StartsWith(t, i, lit) /\ StartsWith(t, j, tail)
                     THEN tail \o Drop(t, j + Len(tail), lit, tail)
                     ELSE <<t[i]>> \o Drop(t, i + 1, lit, tail)
        c1 == DropTokens(response, 1)
        c2 == Drop(c1, 1, <<"a", "s", "s", "i", "s", "t", "a", "n", "t">>, <<"{">>)
        c3 == Drop(c2, 1, <<Backquote, Backquote, Backquote, "j", "s", "o", "n">>, <<>>)
        cleaned == Drop(c3, 1, <<Backquote, Backquote, Backquote>>, <<>>)
        \* Lines 68-88: the loop at character i; start = 0 is start_idx = None.
        RECURSIVE Scan(_, _, _)
        Scan(i, level, start) ==
            IF i > Len(cleaned) THEN [ok |-> FALSE, object |-> NoFields]
            ELSE IF cleaned[i] = "{"
            THEN Scan(i + 1, level + 1, IF level = 0 THEN i ELSE start)
            ELSE IF cleaned[i] = "}"
            THEN IF /\ level - 1 = 0 /\ start # 0
                    /\ json_loads(SubSeq(cleaned, start, i)).ok
                 THEN json_loads(SubSeq(cleaned, start, i))
                 ELSE Scan(i + 1, level - 1, start)
            ELSE Scan(i + 1, level, start)
    IN  Scan(1, 0, 0)

----------------------------------------------------------------------------
(* The state machine: one request to one service *)

Ops ==
    {"generate_flashcards", "analyze_word", "translate_and_analyze_word", "create_test",
     "generate_recommendations"}

DefaultConfig ==
    [types |-> <<"classic", "contextual", "audio", "speed">>, count |-> MaxCount,
     isPremium |-> FALSE]

NoResp == [BaseDoc(<<>>) EXCEPT !.kind = "none"]

\* The arguments of the operations that take no word list; the word is "dog"
\* and its context "The dog barks" in every request.
NoArgs == [userLevel |-> "A2"]

\* UserProgress.model_dump(): the four keys are always there.  averageAccuracy
\* is counted in hundredths, 70 for 0.7; the lists of weak areas have up to
\* three entries, so that weak_areas[:2] drops one.
ProgressSnapshots ==
    LET areas == {"verbs", "idioms"}
        lists == {<<>>} \cup {<<a>> : a \in areas}
                     \cup {<<a, b>> : a \in areas, b \in areas}
                     \cup {<<a, b, "nouns">> : a \in areas, b \in areas}
    IN  [totalWords : {0, 2, 4}, masteredWords : 0..3, weakAreas : lists,
         averageAccuracy : {0, 69, 70, 75, 100}]

\* For create_test the fields of TestGenerateRequest: the words of the user,
\* any int as questionCount, 10 being its default. WordAnalysisRequest.userLevel
\* is Optional[str], TranslationConfig.userLevel a str.
ArgsFor(o) ==
    CASE o = "generate_flashcards" -> {NoArgs}
      [] o = "create_test" ->
           [userWords : UNION {[1..n -> Texts] : n \in 0..MaxWords},
            questionCount : Counts \cup {10},
            testType : {"vocabulary_review"}, targetLevel : {"A2"}]
      [] o = "generate_recommendations" -> ProgressSnapshots
      [] o = "analyze_word" ->
           {[NoArgs EXCEPT !.userLevel = l] : l \in {NoneV, "", "A2", "C1"}}
      [] OTHER -> {[NoArgs EXCEPT !.userLevel = l] : l \in {"", "A2", "C1"}}

\* user_level or "A2"
LevelOr(l) == IF l \in {NoneV, ""} THEN "A2" ELSE l

\* The keys of the schema in the prompt of analyze_word.
AnalyzeFields ==
    {"word", "translation", "definition", "difficulty", "cefr_level",
     "context_analysis", "usage_examples", "synonyms", "etymology"}

\* The keys of the schema in the prompt of translate_and_analyze_word.
TranslateFields ==
    {"word", "translation", "alternativeTranslations", "contextTranslation",
     "definition", "difficulty", "cefr_level", "contextAnalysis", "learningData",
     "flashcardSuggestion"}

\* A value of the schema: the word, a CEFR tag, "list" for a list of strings,
\* "object" for a dict, "text" for any other string.
SchemaValue(f) ==
    CASE f = "word" -> "dog"
      [] f \in {"difficulty", "cefr_level"} -> "B1"
      [] f \in {"usage_examples", "synonyms", "alternativeTranslations"} -> "list"
      [] f \in {"contextAnalysis", "learningData", "flashcardSuggestion"} -> "object"
      [] OTHER -> "text"

SchemaSuggestion ==
    [question |-> QPlain, answer |-> "chien", options |-> ListOf(GoodOptions)]

\* A valid JSON object answering the prompt of analyze_word as its schema asks.
AnalysisDoc ==
    [BaseDoc(<<>>) EXCEPT !.kind = "analysis",
                          !.fields = [f \in AnalyzeFields |-> SchemaValue(f)]]

\* The same for translate_and_analyze_word.
TranslationDoc ==
    [BaseDoc(<<>>) EXCEPT !.kind = "analysis",
                          !.fields = [f \in TranslateFields |-> SchemaValue(f)],
                          !.suggestion = SchemaSuggestion]

SuggestionDefects ==
       {[SchemaSuggestion EXCEPT !.question = v] : v \in {Absent, NoneV}}
    \cup {[SchemaSuggestion EXCEPT !.answer = v] : v \in {Absent, NoneV}}
    \cup {[SchemaSuggestion EXCEPT !.options = v] :
              v \in {NoList, NullList, ListOf(<<"chien", "chat", "loup">>),
                     ListOf(<<"chien", "chat", "loup", "ours", "lion">>)}}

\* The objects that differ from d in exactly one place: a key is missing or
\* null, the difficulty is no CEFR tag, the suggestion is incomplete, or the
\* closing brace is missing.
AnalysisDefects(d) ==
       {[d EXCEPT !.wellFormed = FALSE]}
    \cup {[d EXCEPT !.fields[f] = v, !.suggestion =
                        IF f = "flashcardSuggestion" THEN NoSuggestion ELSE @] :
              f \in DOMAIN d.fields, v \in {Absent, NoneV}}
    \cup {[d EXCEPT !.fields["difficulty"] = "medium"]}
    \cup IF "flashcardSuggestion" \in DOMAIN d.fields
         THEN {[d EXCEPT !.suggestion = sg] : sg \in SuggestionDefects}
         ELSE {}

\* For create_test the document is the one the prompts ask for, with one
\* question, whole or cut short. For generate_recommendations it is a JSON
\* value, whole or cut short: the object {"recommendations": [...]} the prompt
\* of the legacy service asks for, the bare list of its entries, or the object
\* of the five keys focus_areas, suggested_activities, difficulty_adjustment,
\* study_schedule and motivation_tips the prompt of OllamaAIService names
\* ("advice"). The lists show none, one, three ordered, two unordered and
\* five entries, and an entry without "reason".
ResponsesFor(o) ==
    CASE o = "generate_flashcards" -> Responses
      [] o = "create_test" ->
           LET q1 == [id |-> "q1", type |-> "multiple_choice",
                      question |-> "Que signifie 'dog' ?", answer |-> "chien",
                      options |-> <<"chien", "chat", "loup", "ours">>,
                      difficulty |-> "A2", explanation |-> "text",
                      correct_answer |-> Absent]
               quiz == [BaseDoc(<<>>) EXCEPT
                          !.kind = "quiz",
                          !.fields = [k \in {"questions", "estimatedTime"} |->
                                         IF k = "questions" THEN <<q1>> ELSE 30]]
           IN  {FailResp, GarbageResp, quiz, [quiz EXCEPT !.wellFormed = FALSE]}
      [] o = "generate_recommendations" ->
           LET rec(t, p) == [type |-> t, content |-> "text", priority |-> p,
                             reason |-> "text"]
               high == rec("review_session", "high")
               medium == rec("exercise_type", "medium")
               low == rec("word_to_learn", "low")
               lists == {<<>>, <<high>>, <<high, medium, low>>, <<low, high>>,
                         <<high, high, medium, medium, low>>,
                         <<[medium EXCEPT !.reason = Absent]>>}
               values == {[form |-> f, recommendations |-> l] :
                              f \in {"object", "list"}, l \in lists}
                         \cup {[form |-> "advice", recommendations |-> <<>>]}
               docs == {[BaseDoc(<<>>) EXCEPT !.kind = "recs", !.fields = v] :
                            v \in values}
           IN  {FailResp, GarbageResp} \cup docs
                  \cup {[d EXCEPT !.wellFormed = FALSE] : d \in docs}
      [] o = "analyze_word" ->
           {FailResp, GarbageResp, AnalysisDoc} \cup AnalysisDefects(AnalysisDoc)
      [] OTHER ->
           {FailResp, GarbageResp, TranslationDoc} \cup AnalysisDefects(TranslationDoc)

\* The instances __init__ can build, each as the fields it is given.
\* MLXAIService._load_model catches the exception of mlx_lm.load and leaves
\* model and tokenizer None.
Constructed(s) ==
    CASE s = "groq" ->
           {[api_key |-> "GROQ_API_KEY", model |-> "GROQ_MODEL", client |-> "AsyncGroq",
             fallback_model |-> "GROQ_FALLBACK_MODEL",
             base_url |-> "https://api.groq.com/openai/v1"]}
      [] s = "mlx" ->
           {[model |-> m, tokenizer |-> t,
             model_name |-> "mlx-community/Meta-Llama-3.1-8B-Instruct-4bit"] :
                <<m, t>> \in {<<"model", "tokenizer">>, <<NoneV, NoneV>>}}
      [] s = "ollama" ->
           {[base_url |-> "OLLAMA_BASE_URL", model |-> "OLLAMA_MODEL",
             client |-> "AsyncClient"]}
      [] s = "openai" -> {[client |-> "AsyncOpenAI", model |-> "gpt-4o-mini"]}
      [] OTHER -> {[client |-> "ollama.Client", model |-> "OLLAMA_MODEL"]}

\* A request is the call one endpoint of main.py makes on a service, whether
\* the service has the operation or not; the legacy AIService, which main.py
\* does not mount, is called on the operations it has.
\* OpenAIService.generate_flashcards is also called the way
\* its signature asks, with one dict whose key "words" holds a list of
\* strings, of which it uses the first five.
Init ==
    /\ svc \in Services
    /\ op \in Ops
    /\ service \in Constructed(svc)
    /\ other = [pc |-> "none"]
    /\ ~(svc = "legacy" /\ op = "translate_and_analyze_word")
    /\ \/ /\ args \in ArgsFor(op)
          /\ IF op = "generate_flashcards"
             THEN words \in WordLists /\ config \in Configs
             ELSE words = <<>> /\ config = DefaultConfig
       \/ /\ svc = "openai" /\ op = "generate_flashcards"
          /\ \E ws \in {<<>>, <<"dog">>, <<"dog", "hello">>,
                         <<"dog", "hello", "house", "cat", "dog", "hello">>} :
                 args = [userLevel |-> "A2", words |-> ws]
          /\ words = <<>> /\ config = DefaultConfig
    /\ text = <<>>
    /\ pc = "start"
    /\ resp = NoResp
    /\ cand = NoCand
    /\ idx = 1
    /\ result = NoResult
    /\ outcome = "pending"
    /\ path = "none"
    /\ calls = 0

\* The exception leaves the service method.
Raise ==
    /\ pc' = "done"
    /\ outcome' = "raised"
    /\ result' = NoResult

Return(r, p) ==
    /\ pc' = "done"
    /\ outcome' = "returned"
    /\ result' = r
    /\ path' = p

\* The provider answers: a failure, text that holds no JSON, or a document.
Call(s) ==
    /\ svc = s
    /\ pc = "start"
    /\ \E r \in ResponsesFor(op) : resp' = r
    /\ calls' = calls + 1
    /\ pc' = "parse"
    /\ UNCHANGED <<service, other, svc, op, words, config, args, text, cand, idx, result, outcome, path>>

\* GroqService: the prompt of lines 468-526 is built before the try; the
\* contextual prompt reads selected_words[0] and raises IndexError on an
\* empty selection, before any call.
GroqPromptRaises ==
    /\ op = "generate_flashcards"
    /\ config.types = <<"contextual">>
    /\ SelectedWords(words, config) = <<>>

\* The exception leaves the method before the provider is called.
RaiseEarly(s) ==
    /\ svc = s /\ pc = "start"
    /\ Raise
    /\ UNCHANGED <<service, other, svc, op, words, config, args, text, resp, cand, idx, path, calls>>

GroqCall ==
    \/ /\ ~GroqPromptRaises
       /\ op \notin {"create_test", "generate_recommendations"}
       /\ Call("groq")
    \/ GroqPromptRaises /\ RaiseEarly("groq")

\* main.py lines 150 and 171 call create_test and generate_recommendations on
\* the mounted service; GroqService and OpenAIService define neither:
\* AttributeError, no method runs.
MissingOperation ==
    /\ svc \in {"groq", "openai"}
    /\ op \in {"create_test", "generate_recommendations"}
    /\ RaiseEarly(svc)

\* MLXAIService._calculate_type_distribution divides by target_count while the
\* prompt is built, before the try: ZeroDivisionError when it is 0 and the
\* list of types is not empty.
MlxPromptRaises ==
    /\ op = "generate_flashcards"
    /\ config.types # <<>>
    /\ Min(config.count, Len(words)) = 0

\* _generate_response, lines 30-57: on an instance without model or
\* tokenizer line 33 raises before mlx_lm.generate is called, which the
\* operation sees as a failed call.
MlxCall ==
    \/ /\ svc = "mlx" /\ ~MlxPromptRaises /\ op # "generate_recommendations"
       /\ service.model # NoneV /\ service.tokenizer # NoneV
       /\ Call("mlx")
    \/ /\ svc = "mlx" /\ ~MlxPromptRaises /\ op # "generate_recommendations"
       /\ service.model = NoneV \/ service.tokenizer = NoneV
       /\ pc = "start"
       /\ resp' = FailResp
       /\ pc' = "parse"
       /\ UNCHANGED <<service, other, svc, op, words, config, args, text, cand, idx, result, outcome, path, calls>>
    \/ MlxPromptRaises /\ RaiseEarly("mlx")

\* OllamaAIService builds its prompts from the word texts and json.dumps of
\* the configuration: nothing raises before the call.
OllamaCall == svc = "ollama" /\ Call("ollama")

----------------------------------------------------------------------------
(* GroqService *)

\* '"cards"' in response_clean and '"sessionId"' in response_clean
WantsRebuild(doc) == doc.cardsKey /\ doc.sessionKey

\* The dict json.loads gives for a well-formed document.
Parsed(doc) ==
    [sessionId |-> IF doc.sessionKey THEN "s1" ELSE Absent, cardsKey |-> doc.cardsKey,
     cards |-> doc.cards, meta |-> doc.meta]

\* Line 561 on a text that was not rebuilt: the document the output of
\* _fix_json_syntax spells. Text on one line comes back as it is: the
\* substitutions of lines 289-302 find nothing in what json.dumps writes, and
\* the loop of lines 310-329 sees one line, which holds "}" and leaves
\* in_object False. In the layout "indent" the last item of a list of options
\* is a line of its own without a comma; when it is a string the line holds a
\* double quote and no colon, in_object is True since the "{" of the card, and
\* line 326 drops it. A list of one item is then empty; of a longer list the
\* item before keeps its comma in front of "]" and json.loads (line 564)
\* raises, which wellFormed = FALSE stands for.
Fixed(doc) ==
    LET its(c) == c.options.items
        cut(c) == c.options.tag = "list" /\ its(c) # <<>> /\ its(c)[Len(its(c))] # NoneV
    IN  IF doc.layout = "line" THEN doc
        ELSE [doc EXCEPT
                !.wellFormed = /\ doc.wellFormed
                               /\ \A i \in 1..Len(doc.cards) :
                                     cut(doc.cards[i]) => Len(its(doc.cards[i])) = 1,
                !.cards = [i \in 1..Len(doc.cards) |->
                             IF cut(doc.cards[i])
                             THEN [doc.cards[i] EXCEPT !.options = ListOf(<<>>)]
                             ELSE doc.cards[i]]]

\* Lines 570-572: the two counters are overwritten, difficultyMix is not.
Recounted(c) ==
    [c EXCEPT !.meta.totalCards = Len(c.cards), !.meta.estimatedTime = Len(c.cards) * 15]

\* A parse that keeps the parsed document in a field of the instance, where
\* the loop of lines 574-644 reads it: a call waiting in that loop finds the
\* document of the call that parsed last.
GroqParseOnInstance ==
    /\ svc = "groq" /\ op = "generate_flashcards" /\ pc = "parse"
    /\ UNCHANGED <<service, svc, op, words, config, args, text, resp, idx, calls>>
    /\ IF resp.kind # "doc"
       THEN pc' = "except" /\ UNCHANGED <<cand, result, outcome, path>>
       ELSE IF WantsRebuild(resp)
       THEN IF RebuildRaises(resp.cards)
            THEN pc' = "except" /\ UNCHANGED <<cand, result, outcome, path>>
            ELSE /\ cand' = Recounted(rebuild_json_structure(resp))
                 /\ path' = "rebuilt"
                 /\ pc' = "normalize"
                 /\ UNCHANGED <<result, outcome>>
       ELSE IF ~Fixed(resp).wellFormed
       THEN pc' = "except" /\ UNCHANGED <<cand, result, outcome, path>>
       ELSE IF ~resp.cardsKey
       THEN /\ Return(SessionResult(Parsed(resp).sessionId, FALSE, <<>>, resp.meta,
                                    FALSE, Absent), "provider")
            /\ UNCHANGED cand
       ELSE IF ~resp.meta.present
       THEN pc' = "except" /\ UNCHANGED <<cand, result, outcome, path>>
       ELSE /\ cand' = Recounted(Parsed(Fixed(resp)))
            /\ path' = "provider"
            /\ pc' = "normalize"
            /\ UNCHANGED <<result, outcome>>
    /\ other' = IF other.pc = "normalize" /\ pc' = "normalize"
                THEN [other EXCEPT !.cand = cand'] ELSE other

\* Lines 528-572 after the provider's answer: extraction, optional rebuild,
\* json.loads, and the header of the normalization.
GroqParse ==
    /\ svc = "groq" /\ op = "generate_flashcards" /\ pc = "parse"
    /\ UNCHANGED <<service, other, svc, op, words, config, args, text, resp, idx, calls>>
    /\ IF resp.kind # "doc"
       THEN pc' = "except" /\ UNCHANGED <<cand, result, outcome, path>>
       ELSE IF WantsRebuild(resp)
       THEN IF RebuildRaises(resp.cards)
            THEN pc' = "except" /\ UNCHANGED <<cand, result, outcome, path>>
            ELSE /\ cand' = Recounted(rebuild_json_structure(resp))
                 /\ path' = "rebuilt"
                 /\ pc' = "normalize"
                 /\ UNCHANGED <<result, outcome>>
       ELSE IF ~Fixed(resp).wellFormed
       THEN pc' = "except" /\ UNCHANGED <<cand, result, outcome, path>>
       ELSE IF ~resp.cardsKey
       THEN /\ Return(SessionResult(Parsed(resp).sessionId, FALSE, <<>>, resp.meta,
                                    FALSE, Absent), "provider")
            /\ UNCHANGED cand
       ELSE IF ~resp.meta.present
       THEN pc' = "except" /\ UNCHANGED <<cand, result, outcome, path>>
       ELSE /\ cand' = Recounted(Parsed(Fixed(resp)))
            /\ path' = "provider"
            /\ pc' = "normalize"
            /\ UNCHANGED <<result, outcome>>

\* One turn of the loop of lines 574-644.
GroqNormalizeCard ==
    /\ svc = "groq" /\ pc = "normalize" /\ idx <= Len(cand.cards)
    /\ UNCHANGED <<service, other, svc, op, words, config, args, text, resp, result, outcome, path, calls>>
    /\ IF NormalizeRaises(cand.cards[idx], idx, config.types)
       THEN pc' = "except" /\ UNCHANGED <<cand, idx>>
       ELSE /\ \E perm \in IF NeedsShuffle(cand.cards[idx]) THEN Perms4 ELSE {Identity4} :
                 cand' = [cand EXCEPT !.cards[idx] =
                             NormalizeCard(cand.cards[idx], idx, config.types, perm)]
            /\ idx' = idx + 1
            /\ UNCHANGED pc

\* return result
GroqReturn ==
    /\ svc = "groq" /\ pc = "normalize" /\ idx > Len(cand.cards)
    /\ Return(SessionResult(cand.sessionId, TRUE, cand.cards, cand.meta, FALSE, Absent),
              path)
    /\ UNCHANGED <<service, other, svc, op, words, config, args, text, resp, cand, idx, calls>>

\* An except branch that asks the provider again instead of synthesizing.
GroqFallbackAsksAgain ==
    /\ svc = "groq" /\ pc = "except"
    /\ \E r \in ResponsesFor(op) : resp' = r
    /\ calls' = calls + 1
    /\ pc' = "parse"
    /\ UNCHANGED <<service, other, svc, op, words, config, args, text, cand, idx, result, outcome, path>>

\* The except branch, lines 647-719; hf is hash(text) % 4 of this process.
GroqFallback ==
    /\ svc = "groq" /\ pc = "except"
    /\ \E hf \in [{w.text : w \in Range(SelectedWords(words, config))} -> 0..3] :
          LET cs == GroqFallbackCards(words, config, hf)
          IN  Return(SessionResult("uuid", TRUE, cs, CountedMeta(Len(cs)), TRUE, NoneV),
                     "fallback")
    /\ UNCHANGED <<service, other, svc, op, words, config, args, text, resp, cand, idx, calls>>

\* The dict an analysis operation returns: for every key of the schema its
\* value, or Absent when the dict has no such key, and the key "error".
AnalysisResult(fs, sg, er) ==
    [NoResult EXCEPT !.shape = "analysis", !.fields = fs, !.suggestion = sg,
                     !.error = er]

\* The parsed object, returned as the provider wrote it.
Unchanged(doc) == AnalysisResult(doc.fields, doc.suggestion, Absent)

\* Lines 101-111; MLXAIService writes the same nine keys at lines 151-162.
AnalyzeFallbackFields(level) ==
    [f \in AnalyzeFields |->
        IF f \in {"difficulty", "cefr_level"} THEN LevelOr(level) ELSE SchemaValue(f)]

\* analyze_word, lines 94-111: only json.JSONDecodeError is caught.
GroqAnalyze ==
    /\ svc = "groq" /\ op = "analyze_word" /\ pc = "parse"
    /\ UNCHANGED <<service, other, svc, op, words, config, args, text, resp, cand, idx, calls>>
    /\ CASE resp.kind = "fail" -> Raise /\ UNCHANGED path
         [] resp.kind = "garbage" \/ ~resp.wellFormed ->
              Return(AnalysisResult(AnalyzeFallbackFields(args.userLevel), NoSuggestion,
                                    Absent), "fallback")
         [] OTHER -> Return(Unchanged(resp), "provider")

\* Lines 171-188: result.get(key) is None for a missing key and for null.
GroqFixedFields(fs, level) ==
    [f \in TranslateFields |->
        IF fs[f] \notin {Absent, NoneV} THEN fs[f]
        ELSE CASE f = "word" -> "dog"
               [] f \in {"translation", "definition"} -> "text"
               [] f \in {"difficulty", "cefr_level"} -> LevelOr(level)
               [] f \in {"contextAnalysis", "learningData", "flashcardSuggestion"} ->
                    "object"
               [] OTHER -> fs[f]]

\* Lines 193-219.
GroqTranslateFallbackFields(level) ==
    [f \in TranslateFields |->
        IF f \in {"difficulty", "cefr_level"} THEN LevelOr(level) ELSE SchemaValue(f)]

\* translate_and_analyze_word, lines 166-219: except Exception.
GroqTranslate ==
    LET GroqFallbackSuggestion ==
            [question |-> QPlain, answer |-> "Traduction de dog",
             options |-> ListOf(<<"option1", "option2", "option3", "option4">>)]
    IN  /\ svc = "groq" /\ op = "translate_and_analyze_word" /\ pc = "parse"
        /\ UNCHANGED <<service, other, svc, op, words, config, args, text, resp, cand, idx, calls>>
        /\ IF resp.kind \in {"fail", "garbage"} \/ ~resp.wellFormed
           THEN Return(AnalysisResult(GroqTranslateFallbackFields(args.userLevel),
                                      GroqFallbackSuggestion, Absent), "fallback")
           ELSE Return(AnalysisResult(GroqFixedFields(resp.fields, args.userLevel),
                                      resp.suggestion, Absent), "provider")

----------------------------------------------------------------------------
(* MLXAIService: the module imports neither logging nor uuid *)

\* _extract_json on the documents of the model: the brace count closes on a
\* well-formed document only.
MlxExtracts(r) == r.kind \in {"doc", "analysis", "quiz"} /\ r.wellFormed

\* generate_flashcards, lines 325-334: the parsed document is returned as it
\* is; a failed call or a failed extraction enters the except branch.
MlxGenerate ==
    /\ svc = "mlx" /\ op = "generate_flashcards" /\ pc = "parse"
    /\ UNCHANGED <<service, other, svc, op, words, config, args, text, resp, cand, idx, calls>>
    /\ IF MlxExtracts(resp)
       THEN Return(SessionResult(Parsed(resp).sessionId, resp.cardsKey, resp.cards,
                                 resp.meta, FALSE, Absent), "provider")
       ELSE pc' = "except" /\ UNCHANGED <<result, outcome, path>>

\* The except branch, lines 334-373: its first statement is logger.error, and
\* the module imports no logger (lines 1-8), so the NameError leaves the
\* method before a fallback card is made.
MlxFallback ==
    /\ svc = "mlx" /\ op = "generate_flashcards" /\ pc = "except"
    /\ Raise
    /\ UNCHANGED <<service, other, svc, op, words, config, args, text, resp, cand, idx, path, calls>>

\* analyze_word, lines 140-168: same except branch.
MlxAnalyze ==
    /\ svc = "mlx" /\ op = "analyze_word" /\ pc = "parse"
    /\ UNCHANGED <<service, other, svc, op, words, config, args, text, resp, cand, idx, calls>>
    /\ IF MlxExtracts(resp)
       THEN Return(Unchanged(resp), "provider")
       ELSE Raise /\ UNCHANGED path

\* Lines 228-255: "difficulty" is "medium" and "cefr_level" the user level as
\* it came.
MlxTranslateFallbackFields(level) ==
    [f \in TranslateFields |->
        CASE f = "difficulty" -> "medium"
          [] f = "cefr_level" -> level
          [] OTHER -> SchemaValue(f)]

MlxFallbackSuggestion ==
    [question |-> "Que signifie 'dog'?", answer |-> "traduction automatique",
     options |-> ListOf(<<"traduction automatique", "option2", "option3", "option4">>)]

\* translate_and_analyze_word, lines 222-255: the fallback sets "error".
\* MLXAIService.generate_recommendations, lines 427-471: rules on the progress
\* snapshot, no provider call.
generate_recommendations(user_progress) ==
    LET total_words == user_progress.totalWords
        mastered    == user_progress.masteredWords
        weak_areas  == user_progress.weakAreas
        accuracy    == user_progress.averageAccuracy
        \* ', '.join(l)
        RECURSIVE Join(_)
        Join(l) == IF l = <<>> THEN ""
                   ELSE IF Len(l) = 1 THEN l[1]
                   ELSE l[1] \o ", " \o Join(Tail(l))
        \* Lines 438-443: this entry has no "reason".
        first == IF accuracy < 70
                 THEN <<[type |-> "practice_focus",
                         content |-> "Focus on reviewing basic vocabulary to improve accuracy",
                         priority |-> "high", reason |-> Absent]>>
                 ELSE <<>>
        \* Lines 445-459: the list is replaced, not extended.
        second == IF weak_areas # <<>>
                  THEN <<[type |-> "weak_areas",
                          content |-> "Focus on: " \o Join(Take(weak_areas, 2)),
                          priority |-> "medium",
                          reason |-> "Based on your performance patterns"],
                         [type |-> "review_session",
                          content |-> "Review session recommended ("
                                        \o ToString(total_words - mastered)
                                        \o " words to practice)",
                          priority |-> IF accuracy < 70 THEN "high" ELSE "low",
                          reason |-> IF accuracy < 70
                                     THEN "Your accuracy is " \o ToString(accuracy)
                                              \o ".0%, improvement needed"
                                     ELSE "Maintenance review"]>>
                  ELSE first
        \* Lines 461-467: mastered / total_words < 0.5.
        third == IF total_words > 0 /\ 2 * mastered < total_words
                 THEN Append(second,
                             [type |-> "mastery",
                              content |-> "Spend more time reviewing learned words to improve retention",
                              priority |-> "medium",
                              reason |-> "Only " \o ToString(mastered) \o "/"
                                           \o ToString(total_words) \o " words mastered"])
                 ELSE second
    IN  [shape |-> "recommendations", recommendations |-> Take(third, 3)]

\* MLXAIService.create_test, lines 375-425: the parsed document is returned as
\* it is; the except branch stops at logger.error with a NameError, before
\* the questions of lines 409-425 are built.
MlxCreateTest ==
    /\ svc = "mlx" /\ op = "create_test" /\ pc = "parse"
    /\ UNCHANGED <<service, other, svc, op, words, config, args, text, resp, cand, idx, calls>>
    /\ IF MlxExtracts(resp)
       THEN Return([shape |-> "quiz", questions |-> resp.fields["questions"],
                    estimatedTime |-> resp.fields["estimatedTime"],
                    error |-> Absent, testMetadata |-> Absent], "provider")
       ELSE Raise /\ UNCHANGED path

MlxRecommend ==
    /\ svc = "mlx" /\ op = "generate_recommendations" /\ pc = "start"
    /\ Return(generate_recommendations(args), "rules")
    /\ UNCHANGED <<service, other, svc, op, words, config, args, text, resp, cand, idx, calls>>

MlxTranslate ==
    /\ svc = "mlx" /\ op = "translate_and_analyze_word" /\ pc = "parse"
    /\ UNCHANGED <<service, other, svc, op, words, config, args, text, resp, cand, idx, calls>>
    /\ IF MlxExtracts(resp)
       THEN Return(Unchanged(resp), "provider")
       ELSE Return(AnalysisResult(MlxTranslateFallbackFields(args.userLevel),
                                  MlxFallbackSuggestion, "text"), "fallback")

----------------------------------------------------------------------------
(* OllamaAIService: every operation catches json.JSONDecodeError only *)

\* json.loads(response) succeeds.
OllamaLoads(r) == r.kind \in {"doc", "analysis", "quiz", "recs"} /\ r.wellFormed

\* word_data.get("text", ""), word_data.get("translation", "")
BasicFlashcards(ws) == [i \in 1..Len(ws) |-> [front |-> ws[i].text, back |-> ws[i].translation]]

\* generate_flashcards, lines 211-240; the documents of the model have no
\* "flashcards", "total_count" or "estimated_time" key.
OllamaGenerate ==
    /\ svc = "ollama" /\ op = "generate_flashcards" /\ pc = "parse"
    /\ UNCHANGED <<service, other, svc, op, words, config, args, text, resp, cand, idx, calls>>
    /\ CASE resp.kind = "fail" -> Raise /\ UNCHANGED path
         [] OllamaLoads(resp) ->
              Return(FlashcardsResult(<<>>, Len(words), Len(words) * 2), "provider")
         [] OTHER ->
              Return(FlashcardsResult(BasicFlashcards(words), Len(words), Len(words) * 2),
                     "fallback")

\* Lines 111-116 and 120-131: the dict has the keys word, analysis, context
\* and userLevel, on both branches.
OllamaAnalyzeFields == [f \in AnalyzeFields |-> IF f = "word" THEN "dog" ELSE Absent]

\* analyze_word, lines 106-131.
\* OllamaAIService.create_test, lines 242-295: only json.JSONDecodeError is
\* caught, a failed call leaves the method.  estimatedTime is counted in half
\* seconds, 3 for 1.5.
OllamaCreateTest ==
    LET selected == Take(args.userWords, args.questionCount)
        basic(w) == [id |-> Absent, type |-> Absent,
                     question |-> "What does '" \o w \o "' mean?", answer |-> Absent,
                     options |-> <<"Definition of " \o w, "Wrong answer 1",
                                   "Wrong answer 2", "Wrong answer 3">>,
                     difficulty |-> Absent, explanation |-> "'" \o w \o "' means...",
                     correct_answer |-> 0]
        metadata(n) == [difficulty |-> args.targetLevel, estimatedTime |-> 3 * n,
                        totalQuestions |-> n]
    IN  /\ svc = "ollama" /\ op = "create_test" /\ pc = "parse"
        /\ UNCHANGED <<service, other, svc, op, words, config, args, text, resp, cand, idx, calls>>
        /\ CASE resp.kind = "fail" -> Raise /\ UNCHANGED path
             [] OllamaLoads(resp) ->
                  Return([shape |-> "quiz", questions |-> resp.fields["questions"],
                          estimatedTime |-> Absent, error |-> Absent,
                          testMetadata |-> metadata(args.questionCount)], "provider")
             [] OTHER ->
                  Return([shape |-> "quiz",
                          questions |-> [i \in 1..Len(selected) |-> basic(selected[i])],
                          estimatedTime |-> Absent, error |-> Absent,
                          testMetadata |-> metadata(Len(selected))], "fallback")

OllamaAnalyze ==
    /\ svc = "ollama" /\ op = "analyze_word" /\ pc = "parse"
    /\ UNCHANGED <<service, other, svc, op, words, config, args, text, resp, cand, idx, calls>>
    /\ CASE resp.kind = "fail" -> Raise /\ UNCHANGED path
         [] OllamaLoads(resp) ->
              Return(AnalysisResult(OllamaAnalyzeFields, NoSuggestion, Absent), "provider")
         [] OTHER ->
              Return(AnalysisResult(OllamaAnalyzeFields, NoSuggestion, Absent), "fallback")

\* Lines 159-172 and 175-192: the dict has the keys word (a dict), analysis
\* and config, on both branches.
OllamaTranslateFields ==
    [f \in TranslateFields |-> IF f = "word" THEN "object" ELSE Absent]

\* translate_and_analyze_word, lines 153-192.
OllamaTranslate ==
    /\ svc = "ollama" /\ op = "translate_and_analyze_word" /\ pc = "parse"
    /\ UNCHANGED <<service, other, svc, op, words, config, args, text, resp, cand, idx, calls>>
    /\ CASE resp.kind = "fail" -> Raise /\ UNCHANGED path
         [] OllamaLoads(resp) ->
              Return(AnalysisResult(OllamaTranslateFields, NoSuggestion, Absent),
                     "provider")
         [] OTHER ->
              Return(AnalysisResult(OllamaTranslateFields, NoSuggestion, Absent),
                     "fallback")

\* generate_recommendations, lines 297-336: what json.loads gave sits under
\* "recommendations", a list of entries or any other value; on
\* json.JSONDecodeError the dict of lines 326-332 with its five keys of advice.
OllamaRecommend ==
    LET wrap(sh, v) == [shape |-> sh, recommendations |-> v, userProgress |-> args,
                        generatedAt |-> "2024-01-01T00:00:00Z"]
    IN  /\ svc = "ollama" /\ op = "generate_recommendations" /\ pc = "parse"
        /\ UNCHANGED <<service, other, svc, op, words, config, args, text, resp, cand, idx, calls>>
        /\ CASE resp.kind = "fail" -> Raise /\ UNCHANGED path
             [] OllamaLoads(resp) ->
                  Return(IF resp.fields.form = "list"
                         THEN wrap("recommendations", resp.fields.recommendations)
                         ELSE wrap("wrapped", resp.fields), "provider")
             [] OTHER ->
                  Return(wrap("wrapped", [form |-> "advice", recommendations |-> <<>>]),
                         "fallback")

----------------------------------------------------------------------------
(* OpenAIService *)

\* main.py line 136 passes words_data and session_config to
\* generate_flashcards(self, words_data): TypeError before the body runs. The
\* prompts of the three operations are built from strings.
OpenaiCall ==
    LET mismatch == op = "generate_flashcards" /\ "words" \notin DOMAIN args
    IN  \/ /\ ~mismatch
           /\ op \notin {"create_test", "generate_recommendations"}
           /\ Call("openai")
        \/ mismatch /\ RaiseEarly("openai")

\* analyze_word, lines 46-68: the dict has the keys word, analysis, context
\* and userLevel on both branches; only json.JSONDecodeError is caught.
OpenaiAnalyze ==
    /\ svc = "openai" /\ op = "analyze_word" /\ pc = "parse"
    /\ UNCHANGED <<service, other, svc, op, words, config, args, text, resp, cand, idx, calls>>
    /\ CASE resp.kind = "fail" -> Raise /\ UNCHANGED path
         [] resp.kind = "analysis" /\ resp.wellFormed ->
              Return(AnalysisResult(OllamaAnalyzeFields, NoSuggestion, Absent), "provider")
         [] OTHER ->
              Return(AnalysisResult(OllamaAnalyzeFields, NoSuggestion, Absent), "fallback")

\* translate_and_analyze_word, lines 81-107: the dict has the keys word,
\* translation, analysis, context, userLevel and masteryLevel;
\* result.get("translation", word) is the word when the key is missing;
\* except Exception.
OpenaiTranslate ==
    LET fields(t) == [f \in TranslateFields |->
                         CASE f = "word" -> "dog"
                           [] f = "translation" -> t
                           [] OTHER -> Absent]
    IN  /\ svc = "openai" /\ op = "translate_and_analyze_word" /\ pc = "parse"
        /\ UNCHANGED <<service, other, svc, op, words, config, args, text, resp, cand, idx, calls>>
        /\ IF resp.kind = "analysis" /\ resp.wellFormed
           THEN Return(AnalysisResult(fields(IF resp.fields["translation"] = Absent
                                             THEN "dog"
                                             ELSE resp.fields["translation"]),
                                      NoSuggestion, Absent), "provider")
           ELSE Return(AnalysisResult(fields("Translation of dog"), NoSuggestion, Absent),
                       "fallback")

\* generate_flashcards, lines 113-127, called with the one dict it takes:
\* the answer of the provider is not read; the dict has the keys "flashcards"
\* and "total".
OpenaiGenerate ==
    LET ws == Take(args.words, 5)
        back(w) == IF resp.kind = "fail" THEN "Learn " \o w ELSE "Definition of " \o w
    IN  /\ svc = "openai" /\ op = "generate_flashcards" /\ pc = "parse"
        /\ UNCHANGED <<service, other, svc, op, words, config, args, text, resp, cand, idx, calls>>
        /\ Return([NoResult EXCEPT
                      !.shape = "flashcards",
                      !.flashcards = [i \in 1..Len(ws) |->
                                         [front |-> ws[i], back |-> back(ws[i])]],
                      !.totalCount = Len(args.words)],
                  IF resp.kind = "fail" THEN "fallback" ELSE "provider")

----------------------------------------------------------------------------
(* Legacy AIService *)

\* Lines 63-74: the fallback has no "word", "cefr_level", "context_analysis",
\* "usage_examples" or "etymology".
LegacyFallbackFields ==
    [f \in AnalyzeFields |->
        CASE f \in {"translation", "definition"} -> "text"
          [] f = "difficulty" -> "A2"
          [] f = "synonyms" -> "list"
          [] OTHER -> Absent]

\* analyze_word, lines 50-74: the client call and json.loads sit in one try
\* with except Exception; the fallback sets "error".
\* AIService.generate_test_questions, lines 134-204: the parsed document as
\* it is, or on any exception one question for each of user_words[:question_count].
LegacyGenerateTestQuestions ==
    LET selected == Take(args.userWords, args.questionCount)
        fallback(i) == [id |-> "q" \o ToString(i), type |-> "multiple_choice",
                        question |-> "Que signifie '" \o selected[i] \o "' ?",
                        answer |-> "traduction",
                        options |-> <<"traduction", "option1", "option2", "option3">>,
                        difficulty |-> args.targetLevel,
                        explanation |-> "'" \o selected[i] \o "' signifie 'traduction'",
                        correct_answer |-> Absent]
    IN  /\ svc = "legacy" /\ op = "create_test" /\ pc = "start"
        /\ \E r \in ResponsesFor(op) :
              /\ resp' = r
              /\ IF r.kind = "quiz" /\ r.wellFormed
                 THEN Return([shape |-> "quiz", questions |-> r.fields["questions"],
                              estimatedTime |-> r.fields["estimatedTime"],
                              error |-> Absent, testMetadata |-> Absent], "provider")
                 ELSE Return([shape |-> "quiz",
                              questions |-> [i \in 1..Len(selected) |-> fallback(i)],
                              estimatedTime |-> args.questionCount * 30,
                              error |-> "text", testMetadata |-> Absent], "fallback")
        /\ calls' = calls + 1
        /\ UNCHANGED <<service, other, svc, op, words, config, args, text, cand, idx>>

LegacyAnalyze ==
    /\ svc = "legacy" /\ op = "analyze_word" /\ pc = "start"
    /\ \E r \in ResponsesFor(op) :
          /\ resp' = r
          /\ IF r.kind \in {"fail", "garbage"} \/ ~r.wellFormed
             THEN Return(AnalysisResult(LegacyFallbackFields, NoSuggestion, "text"),
                         "fallback")
             ELSE Return(Unchanged(r), "provider")
    /\ calls' = calls + 1
    /\ UNCHANGED <<service, other, svc, op, words, config, args, text, cand, idx>>

\* AIService.generate_recommendations, lines 206-269: what json.loads gave is
\* returned as it is, a dict with the key "recommendations", a list or a dict
\* of other keys; on any exception one recommendation and "error".
LegacyRecommend ==
    LET loaded(v) == IF v.form = "object"
                     THEN [shape |-> "recommendations",
                           recommendations |-> v.recommendations]
                     ELSE [shape |-> v.form, items |-> v.recommendations]
        fallback == [shape |-> "recommendations",
                     recommendations |->
                         <<[type |-> "review_session",
                            content |-> "Practice your weakest words daily for 10 minutes",
                            priority |-> "high",
                            reason |-> "Regular review improves retention"]>>,
                     error |-> "text"]
    IN  /\ svc = "legacy" /\ op = "generate_recommendations" /\ pc = "start"
        /\ \E r \in ResponsesFor(op) :
              /\ resp' = r
              /\ IF r.kind = "recs" /\ r.wellFormed
                 THEN Return(loaded(r.fields), "provider")
                 ELSE Return(fallback, "fallback")
        /\ calls' = calls + 1
        /\ UNCHANGED <<service, other, svc, op, words, config, args, text, cand, idx>>

\* generate_flashcards, lines 81-89: no provider is called.
LegacyBegin ==
    /\ svc = "legacy" /\ op = "generate_flashcards" /\ pc = "start"
    /\ pc' = "build"
    /\ cand' = [NoCand EXCEPT !.sessionId = "session_x", !.cardsKey = TRUE]
    /\ path' = "synth"
    /\ UNCHANGED <<service, other, svc, op, words, config, args, text, resp, idx, result, outcome, calls>>

\* One turn of the loop of lines 92-115.
LegacyBuildCard ==
    /\ svc = "legacy" /\ pc = "build" /\ idx <= Len(LegacySelected(words, config))
    /\ UNCHANGED <<service, other, svc, op, words, config, args, text, resp, path, calls>>
    /\ LET w     == LegacySelected(words, config)[idx]
           ctype == select_card_type(w.masteryLevel, config.types, config.isPremium)
           gen   == GeneratorFor(ctype, config.isPremium)
       IN  IF ctype = IndexError
           THEN Raise /\ UNCHANGED <<cand, idx>>
           ELSE \E subtype \in SubtypesOf(gen), perm \in ShufflesOf(gen) :
                  IF GeneratorRaises(w, gen, subtype)
                  THEN Raise /\ UNCHANGED <<cand, idx>>
                  ELSE /\ cand' = [cand EXCEPT !.cards =
                                     Append(@, GeneratedCard(w, "card_" \o ToString(idx),
                                                             gen, subtype, perm))]
                       /\ idx' = idx + 1
                       /\ UNCHANGED <<pc, result, outcome>>

\* Lines 118-132.
LegacyReturn ==
    /\ svc = "legacy" /\ pc = "build" /\ idx > Len(LegacySelected(words, config))
    /\ Return(SessionResult(cand.sessionId, TRUE, cand.cards, LegacyMeta(cand.cards),
                            FALSE, Absent), path)
    /\ UNCHANGED <<service, other, svc, op, words, config, args, text, resp, cand, idx, calls>>

----------------------------------------------------------------------------

----------------------------------------------------------------------------
(* The endpoint /api/v1/flashcards/generate of main.py *)

\* The services AIServiceFactory.create_ai_service can hand to main.py.
Mounted == {"groq", "mlx", "ollama", "openai"}

\* FlashcardQuestion(**c) validates: the required strings are there and are
\* strings, options is absent, None or a list of strings. The cards of the
\* model all carry a subType and an integer timeLimit.
ValidCard(c) ==
    /\ \A f \in {"id", "wordId", "type", "question", "answer", "difficulty"} :
          c[f] \notin {Absent, NoneV}
    /\ \A i \in 1..Len(c.options.items) : c.options.items[i] # NoneV

\* FlashcardGenerateResponse(**r) validates: sessionId, cards and metadata are
\* required, "error" is optional, other keys are ignored.
ValidResponse(r) ==
    /\ r.shape = "session"
    /\ r.sessionId \notin {Absent, NoneV}
    /\ r.cardsKey
    /\ r.meta.present
    /\ \A i \in 1..Len(r.cards) : ValidCard(r.cards[i])

\* Lines 131-140, once the service call has ended: an exception of the service
\* or of the response model becomes HTTPException(status_code=500).
HttpStatus == IF outcome = "raised" \/ ~ValidResponse(result) THEN 500 ELSE 200

----------------------------------------------------------------------------

Next ==
    \/ GroqCall \/ GroqParse \/ GroqNormalizeCard \/ GroqReturn \/ GroqFallback
    \/ GroqAnalyze \/ GroqTranslate \/ MissingOperation
    \/ MlxCall \/ MlxGenerate \/ MlxFallback \/ MlxAnalyze \/ MlxTranslate \/ MlxCreateTest
    \/ MlxRecommend
    \/ OllamaCall \/ OllamaGenerate \/ OllamaAnalyze \/ OllamaTranslate \/ OllamaCreateTest
    \/ OllamaRecommend
    \/ OpenaiCall \/ OpenaiAnalyze \/ OpenaiTranslate \/ OpenaiGenerate
    \/ LegacyAnalyze \/ LegacyGenerateTestQuestions \/ LegacyRecommend
    \/ LegacyBegin \/ LegacyBuildCard \/ LegacyReturn

Spec == Init /\ [][Next]_vars

----------------------------------------------------------------------------
(* The text helpers, each on its own: a helper is applied to a text, and   *)
(* _fix_json_syntax to its own output, text keeping every string produced. *)

\* The texts of at most MaxLen characters over the characters the patterns of
\* _fix_json_syntax look at, and a letter; and the texts {"a": "x"} and
\* {"a": ["x", "y"]} laid out in every way: nothing, a space or a line break
\* between two tokens of the first, nothing or a line break in the second.
FixTexts ==
    LET alphabet == {",", "}", "{", "]", "[", "\"", ":", " ", "\n", "a"}
        RECURSIVE Spaced(_, _)
        Spaced(toks, seps) ==
            IF Len(toks) = 1 THEN {toks[1]}
            ELSE {toks[1] \o sep \o r : sep \in seps, r \in Spaced(Tail(toks), seps)}
        q(ch) == <<"\"", ch, "\"">>
    IN       UNION {[1..n -> alphabet] : n \in 0..MaxLen}
       \cup Spaced(<< <<"{">>, q("a"), <<":">>, q("x"), <<"}">> >>,
                   {<<>>, <<" ">>, <<"\n">>})
       \cup Spaced(<< <<"{">>, q("a"), <<":">>, <<"[">>, q("x"), <<",">>, q("y"),
                      <<"]">>, <<"}">> >>,
                   {<<>>, <<"\n">>})

\* The texts {"k": "v"} whose value v has at most MaxLen characters, among them
\* the braces and the characters of chat tokens and code fences.
ObjectTexts ==
    LET alphabet == {"{", "}", "<", "|", ">", Backquote, " ", "x"}
    IN  {<<"{", "\"", "k", "\"", ":", " ", "\"">> \o v \o <<"\"", "}">> :
            v \in UNION {[1..n -> alphabet] : n \in 0..MaxLen}}

\* _extract_json is also given the texts of at most MaxLen braces and letters.
InitPure ==
    /\ \/ /\ svc = "groq" /\ op = "_fix_json_syntax" /\ args = NoArgs
          /\ \E t \in FixTexts : text = <<t>>
       \/ /\ svc = "mlx" /\ op = "_extract_json" /\ args = NoArgs
          /\ \E t \in ObjectTexts \cup UNION {[1..n -> {"{", "}", "x"}] : n \in 0..MaxLen} :
                 text = <<t>>
    /\ words = <<>> /\ config = DefaultConfig
    /\ service \in Constructed(svc)
    /\ other = [pc |-> "none"]
    /\ pc = "start"
    /\ resp = NoResp
    /\ cand = NoCand
    /\ idx = 1
    /\ result = NoResult
    /\ outcome = "pending"
    /\ path = "none"
    /\ calls = 0

\* One call of _fix_json_syntax on the last text produced.
FixJsonSyntax ==
    /\ op = "_fix_json_syntax" /\ pc = "start"
    /\ text' = Append(text, fix_json_syntax(text[Len(text)]))
    /\ pc' = IF Len(text) = 2 THEN "done" ELSE "start"
    /\ outcome' = IF Len(text) = 2 THEN "returned" ELSE outcome
    /\ UNCHANGED <<service, other, svc, op, words, config, args, resp, cand, idx, result, path, calls>>

\* One call of _extract_json on the text: the object it returns, or the
\* exception of line 88.
MlxExtractJson ==
    /\ op = "_extract_json" /\ pc = "start"
    /\ LET r == extract_json(text[1])
       IN  IF r.ok
           THEN Return([NoResult EXCEPT !.shape = "object", !.fields = r.object],
                       "provider")
           ELSE Raise /\ UNCHANGED path
    /\ UNCHANGED <<service, other, svc, op, words, config, args, text, resp, cand, idx, calls>>

NextPure == FixJsonSyntax \/ MlxExtractJson

SpecPure == InitPure /\ [][NextPure]_vars

----------------------------------------------------------------------------
(* Two generate_flashcards calls on the one GroqService instance main.py    *)
(* creates. Each call is a coroutine with a frame of its own: its           *)
(* arguments and its local variables. The event loop runs one coroutine at  *)
(* a time and passes to the other where the running one awaits the provider *)
(* (line 530) or has finished; the model lets it pass between any two steps *)
(* of a call, which covers every schedule of the loop.                      *)

\* Two requests enter, each one of three: a word and the type classic, two
\* words and two types for a premium caller, no word and the type contextual.
InitPair ==
    LET word(t) == CHOOSE w \in WordPool : w.text = t
        Requests ==
            { [words |-> <<word("dog")>>,
               config |-> [types |-> <<"classic">>, count |-> 1, isPremium |-> FALSE]],
              [words |-> <<word("hello"), word("cat")>>,
               config |-> [types |-> <<"classic", "contextual">>, count |-> 2,
                           isPremium |-> TRUE]],
              [words |-> <<>>,
               config |-> [types |-> <<"contextual">>, count |-> 1, isPremium |-> FALSE]] }
    IN  /\ svc = "groq" /\ op = "generate_flashcards" /\ args = NoArgs /\ text = <<>>
        /\ service \in Constructed(svc)
        /\ \E a \in Requests, b \in Requests :
              /\ words = a.words /\ config = a.config
              /\ other = [words |-> b.words, config |-> b.config, pc |-> "start",
                          resp |-> NoResp, cand |-> NoCand, idx |-> 1, result |-> NoResult,
                          outcome |-> "pending", path |-> "none", calls |-> 0]
        /\ pc = "start"
        /\ resp = NoResp
        /\ cand = NoCand
        /\ idx = 1
        /\ result = NoResult
        /\ outcome = "pending"
        /\ path = "none"
        /\ calls = 0

\* The event loop leaves the running call and resumes the other one: the
\* frames change places, nothing in them changes.
Switch ==
    /\ other.pc # "none"
    /\ other' = [words |-> words, config |-> config, pc |-> pc, resp |-> resp,
                 cand |-> cand, idx |-> idx, result |-> result, outcome |-> outcome,
                 path |-> path, calls |-> calls]
    /\ words' = other.words /\ config' = other.config /\ pc' = other.pc
    /\ resp' = other.resp /\ cand' = other.cand /\ idx' = other.idx
    /\ result' = other.result /\ outcome' = other.outcome /\ path' = other.path
    /\ calls' = other.calls
    /\ UNCHANGED <<service, svc, op, args, text>>

\* A step of the running call, or a switch. The provider answers with a
\* failure, with text that holds no JSON, or with a document whose cards are
\* those of the schema.
NextPair ==
    \/ GroqCall /\ (resp'.kind = "doc" => resp'.cards = SchemaCards(Len(resp'.cards)))
    \/ GroqParse \/ GroqNormalizeCard \/ GroqReturn \/ GroqFallback
    \/ Switch

SpecPair == InitPair /\ [][NextPair]_vars

TypeOK ==
    /\ pc \in {"start", "parse", "normalize", "except", "build", "done"}
    /\ outcome \in {"pending", "returned", "raised"}
    /\ path \in {"none", "provider", "rebuilt", "fallback", "synth", "rules"}
    /\ calls \in 0..1

----------------------------------------------------------------------------
(* Properties of generate_flashcards results *)

\* generate_flashcards has returned a result to its caller.
Generated == op = "generate_flashcards" /\ pc = "done" /\ outcome = "returned"

\* The request has ended after the provider failed or sent text no parser takes.
ProviderLetDown ==
    /\ pc = "done"
    /\ \/ resp.kind \in {"fail", "garbage"}
       \/ resp.kind = "doc" /\ ~resp.wellFormed /\ ~WantsRebuild(resp)

WellOptioned(card) ==
    /\ card.options.tag = "list"
    /\ Len(card.options.items) = 4
    /\ Cardinality(Range(card.options.items)) = 4
    /\ card.answer \in Range(card.options.items)

\* C1: every card of every generate_flashcards result, whatever the service and
\* the path, has a list of exactly 4 pairwise distinct options holding its answer.
C1_FourDistinctOptionsWithAnswer ==
    Generated => \A i \in 1..Len(result.cards) : WellOptioned(result.cards[i])

\* C2: a provider failure or an unparseable provider response never leaves an
\* operation as an exception: the operation returns a result.
C2_NoProviderErrorSurfaces ==
    ProviderLetDown => outcome = "returned"

\* The result has the keys "cards" and "metadata".
Complete == result.shape = "session" /\ result.cardsKey /\ result.meta.present

\* C3: in every generate_flashcards result, easy + medium + hard of
\* difficultyMix equals totalCards, which equals the number of cards.
C3_DifficultyMixSumsToCardCount ==
    Generated /\ Complete =>
        /\ result.meta.easy + result.meta.medium + result.meta.hard = result.meta.totalCards
        /\ result.meta.totalCards = Len(result.cards)

\* C4: in every generate_flashcards result, estimatedTime is the sum of the
\* returned cards' timeLimit divided by 1000.
C4_EstimatedTimeFromTimeLimits ==
    Generated /\ Complete =>
        result.meta.estimatedTime * 1000 = SumTimeLimit(result.cards)

\* C5: a generation result carries the fallback marker if and only if the
\* fallback synthesizer produced it.
C5_FallbackMarkedIffSynthesized ==
    Generated => (result.fallback <=> path = "fallback")

\* C6: with isPremium false no returned card has type audio or speed.
C6_NoPremiumTypeForFreeUser ==
    Generated /\ ~config.isPremium =>
        \A i \in 1..Len(result.cards) : result.cards[i].type \notin {"audio", "speed"}

\* min(sessionConfig.count, number of words), a negative count read as 0.
Wanted == Max(0, Min(config.count, Len(words)))

\* C7: when the provider call fails, generate_flashcards returns exactly
\* min(count, number of words) cards, the i-th made from the i-th word.
C7_FallbackOneCardPerWord ==
    op = "generate_flashcards" /\ pc = "done" /\ resp.kind = "fail" =>
        /\ outcome = "returned"
        /\ result.shape = "session"
        /\ Len(result.cards) = Wanted
        /\ \A i \in 1..Len(result.cards) :
              i <= Len(words) /\ result.cards[i].wordId = "word_" \o words[i].text

\* C8: whatever the provider answered, the result has at most count cards and
\* totalCards is at most count (a negative count read as 0).
C8_AtMostCountCards ==
    Generated /\ Complete /\ resp.kind = "doc" =>
        /\ Len(result.cards) <= Max(0, config.count)
        /\ result.meta.totalCards <= Max(0, config.count)

\* The card of the provider at position i came with a list of options.
Supplied(i) == i <= Len(resp.cards) /\ resp.cards[i].options.tag = "list"

\* The result holds, position by position, the provider's cards normalized.
Normalized == svc = "groq" /\ Generated /\ path = "provider"

Occurrences(s, v) == Cardinality({k \in 1..Len(s) : s[k] = v})

\* C9: a provider card with fewer than 4 options leaves normalization with
\* exactly 4: the original entries first and in order, the answer among the 4
\* exactly once.
C9_ShortOptionsPaddedAroundAnswer ==
    Normalized =>
        \A i \in 1..Len(result.cards) :
            Supplied(i) /\ Len(resp.cards[i].options.items) < 4 =>
                LET given == resp.cards[i].options.items
                    out   == result.cards[i].options.items
                IN  /\ Len(out) = 4
                    /\ SubSeq(out, 1, Len(given)) = given
                    /\ Occurrences(out, result.cards[i].answer) = 1

\* C10: a provider card with more than 4 options, its answer among them, still
\* has its answer among the options once the list is cut to 4.
C10_TruncationKeepsAnswer ==
    Normalized =>
        \A i \in 1..Len(result.cards) :
            /\ Supplied(i)
            /\ Len(resp.cards[i].options.items) > 4
            /\ resp.cards[i].answer \in Range(resp.cards[i].options.items)
            => resp.cards[i].answer \in Range(result.cards[i].options.items)

\* C15: generate_flashcards called through the endpoint with an empty word
\* list ends in an error for the caller, HTTP status 400 or 500, never in a
\* successful response.
C15_EmptyWordListIsAnError ==
    op = "generate_flashcards" /\ svc \in Mounted /\ words = <<>> /\ pc = "done" =>
        HttpStatus \in {400, 500}

\* C16: when the structural rebuild of a Groq response completes with fewer
\* cards than were requested, generate_flashcards returns the recovered cards
\* (same ids, same order), none of them synthesized by the fallback, and
\* metadata.totalCards is the number of recovered cards.
C16_RebuildUnderCountIsReturned ==
    LET recovered == rebuild_json_structure(resp).cards
    IN  /\ svc = "groq" /\ op = "generate_flashcards" /\ pc = "done"
        /\ resp.kind = "doc" /\ WantsRebuild(resp) /\ ~RebuildRaises(resp.cards)
        /\ Len(recovered) < Min(config.count, Len(words))
        => /\ outcome = "returned"
           /\ ~result.fallback
           /\ [i \in 1..Len(result.cards) |-> result.cards[i].id]
                  = [i \in 1..Len(recovered) |-> recovered[i].id]
           /\ result.meta.totalCards = Len(recovered)

\* C21: a generation call that has entered the fallback path, the except
\* branch of generate_flashcards, completes in its next step with a
\* synthesized result: the fallback code raises in no service.
C21_FallbackAlwaysCompletes ==
    [][op = "generate_flashcards" /\ pc = "except" =>
          pc' = "done" /\ outcome' = "returned" /\ path' = "fallback"]_vars

\* C22: in generate_flashcards the structural rebuild has run only on a
\* provider text that does not parse as it stands: a well-formed document is
\* never passed through the rebuild.
C22_RebuildOnlyAfterParsingFailed ==
    op = "generate_flashcards" /\ path = "rebuilt" => ~resp.wellFormed

\* json.loads of line 564 gave an object: the rebuild wrote the text, or
\* _fix_json_syntax left a text that parses.
ObjectParsed ==
    /\ svc = "groq" /\ op = "generate_flashcards" /\ resp.kind = "doc"
    /\ IF WantsRebuild(resp) THEN ~RebuildRaises(resp.cards) ELSE Fixed(resp).wellFormed

\* C23: once the provider text has been parsed into an object,
\* generate_flashcards returns a result derived from that object; no failure
\* of the normalization sends the call to the fallback synthesizer.
C23_ParsedObjectIsNormalized ==
    ObjectParsed /\ pc = "done" =>
        outcome = "returned" /\ ~result.fallback /\ path \in {"provider", "rebuilt"}

\* C26: in every generate_flashcards result each bucket of difficultyMix,
\* easy, medium and hard, is the number of returned cards of that difficulty.
C26_DifficultyMixCountsCards ==
    Generated /\ Complete =>
        /\ result.meta.easy = CountDifficulty(result.cards, "easy")
        /\ result.meta.medium = CountDifficulty(result.cards, "medium")
        /\ result.meta.hard = CountDifficulty(result.cards, "hard")

\* C28: when the provider answers GroqService.generate_flashcards with
\* well-formed JSON that has sessionId and cards, every card as the schema
\* asks for it, and the requested types are not the single type contextual,
\* each returned card has the type, difficulty and timeLimit the provider
\* gave it.
C28_ProviderCardFieldsKept ==
    /\ svc = "groq" /\ Generated
    /\ resp.kind = "doc" /\ resp.wellFormed /\ WantsRebuild(resp)
    /\ resp.cards = SchemaCards(Len(resp.cards))
    /\ ~SingleContextual(config.types)
    => /\ result.shape = "session" /\ result.cardsKey
       /\ Len(result.cards) = Len(resp.cards)
       /\ \A i \in 1..Len(resp.cards) :
            /\ result.cards[i].type = resp.cards[i].type
            /\ result.cards[i].difficulty = resp.cards[i].difficulty
            /\ result.cards[i].timeLimit = resp.cards[i].timeLimit

\* C30: select_card_type gives a card type, without raising, for every
\* mastery level, list of requested types and premium flag, also for a caller
\* without premium who asks for audio and speed only; the legacy
\* generate_flashcards that returns has a card for every selected word.
C30_CardTypeForEveryWord ==
    svc = "legacy" /\ op = "generate_flashcards" /\ pc = "done" =>
        /\ \A i \in 1..Len(LegacySelected(words, config)) :
              select_card_type(LegacySelected(words, config)[i].masteryLevel,
                               config.types, config.isPremium) # IndexError
        /\ outcome = "returned" =>
              Len(result.cards) = Len(LegacySelected(words, config))

----------------------------------------------------------------------------
(* Properties of the analysis operations *)

CEFR == {"A1", "A2", "B1", "B2", "C1", "C2"}

\* The provider answered the call with some text, JSON or not.
Answered == pc = "done" /\ resp.kind \notin {"none", "fail"}

\* The key f of the returned dict is there and its value is not None.
Filled(f) == result.fields[f] \notin {Absent, NoneV}

\* C11: whatever text the provider answers to analyze_word (no JSON, or JSON
\* with keys missing or null) and whatever the user level, a result is
\* returned whose nine keys word, translation, definition, difficulty,
\* cefr_level, context_analysis, usage_examples, synonyms and etymology are
\* present and not null, with difficulty one of the six CEFR tags.
C11_AnalysisHasNineFields ==
    op = "analyze_word" /\ Answered =>
        /\ outcome = "returned"
        /\ \A f \in AnalyzeFields : Filled(f)
        /\ result.fields["difficulty"] \in CEFR

\* The provider answered with text that parses as a JSON object.
Parseable == pc = "done" /\ resp.kind = "analysis" /\ resp.wellFormed

\* C12: for every parseable answer of the provider to
\* translate_and_analyze_word a result is returned in which word, translation,
\* contextTranslation, definition, difficulty and cefr_level are present and
\* not null, contextAnalysis, learningData and flashcardSuggestion are objects,
\* and flashcardSuggestion has a question, an answer and a list of exactly 4
\* options.
C12_TranslationHasTargetShape ==
    op = "translate_and_analyze_word" /\ Parseable =>
        /\ outcome = "returned"
        /\ \A f \in {"word", "translation", "contextTranslation", "definition",
                     "difficulty", "cefr_level"} : Filled(f)
        /\ \A f \in {"contextAnalysis", "learningData", "flashcardSuggestion"} :
              result.fields[f] = "object"
        /\ result.suggestion.question \notin {Absent, NoneV}
        /\ result.suggestion.answer \notin {Absent, NoneV}
        /\ result.suggestion.options.tag = "list"
        /\ Len(result.suggestion.options.items) = 4

----------------------------------------------------------------------------
(* Properties of the text helpers *)

\* C13: _fix_json_syntax is idempotent: applied to its own output it gives
\* back that output, for every text.
C13_FixJsonSyntaxIdempotent ==
    op = "_fix_json_syntax" /\ Len(text) = 3 => text[3] = text[2]

\* C29: _fix_json_syntax preserves valid input: a text that parses as JSON,
\* also one laid out over several lines with one list element per line, is
\* turned into a text that parses to the same value.
C29_FixJsonSyntaxKeepsValidJson ==
    op = "_fix_json_syntax" /\ Len(text) >= 2 /\ json_decode(text[1]).ok =>
        /\ json_decode(text[2]).ok
        /\ json_decode(text[2]).canon = json_decode(text[1]).canon

\* The text spells a JSON object.
IsObject(t) == json_decode(t).ok /\ json_decode(t).kind = "dict"

\* C14: for every well-formed JSON object text, whatever characters its string
\* values hold, _extract_json returns the object that parsing the text
\* directly gives.
C14_ExtractJsonRoundTrip ==
    op = "_extract_json" /\ pc = "done" /\ IsObject(text[1]) =>
        /\ outcome = "returned"
        /\ result.fields = json_loads(text[1]).object

\* C25: _extract_json raises only when no balanced {...} span of the cleaned
\* text parses as JSON; when a span that parses occurs anywhere in the text,
\* also after spans that do not parse or after unmatched closing braces, an
\* object is returned.  Stated for the texts the cleaning leaves as they are
\* and that hold no string, so that every brace is one of structure.
C25_ExtractJsonFindsAnyObject ==
    LET t == text[1]
        untouched == \A i \in 1..Len(t) : t[i] \notin {"<", Backquote, "\""}
    IN  /\ op = "_extract_json" /\ pc = "done" /\ untouched
        /\ \E i \in 1..Len(t) : \E j \in i..Len(t) : IsObject(SubSeq(t, i, j))
        => outcome = "returned"

----------------------------------------------------------------------------
(* Properties of generate_recommendations *)

Recommended == op = "generate_recommendations" /\ pc = "done" /\ outcome = "returned"

\* The recommendations of the result: the list under its key
\* "recommendations", none when the result has no such list.
Recs == IF result.shape = "recommendations" THEN result.recommendations ELSE <<>>

\* C17: whenever averageAccuracy is below 0.7, whatever totalWords,
\* masteredWords and weakAreas are, the result of generate_recommendations
\* holds at least one recommendation of priority high.
C17_LowAccuracyGetsHighPriority ==
    Recommended /\ args.averageAccuracy < 70 =>
        \E i \in 1..Len(Recs) : Recs[i].priority = "high"

\* C18: the recommendations of every result are ordered by priority: none of
\* priority medium or low comes before one of priority high, none of priority
\* low before one of priority medium.
C18_RecommendationsOrderedByPriority ==
    LET rank(p) == CASE p = "high" -> 1 [] p = "medium" -> 2 [] OTHER -> 3
    IN  Recommended =>
            \A i, j \in 1..Len(Recs) :
                i < j => rank(Recs[i].priority) <= rank(Recs[j].priority)

\* C19: every result of generate_recommendations holds a list of
\* recommendations, each with the fields type, content, priority and reason
\* and a priority that is high, medium or low.
C19_RecommendationHasFourFields ==
    Recommended =>
        /\ result.shape = "recommendations"
        /\ \A i \in 1..Len(Recs) :
              /\ \A f \in {"type", "content", "priority", "reason"} :
                     Recs[i][f] \notin {Absent, NoneV}
              /\ Recs[i].priority \in {"high", "medium", "low"}

----------------------------------------------------------------------------
(* Properties of the quiz operation *)

\* C20: when the provider call fails, the quiz operation (create_test,
\* generate_test_questions of the legacy service) called with a questionCount
\* that is not negative returns min(questionCount, number of input words)
\* questions, the i-th one a multiple-choice question about the i-th input
\* word, with exactly 4 options that include its answer.
C20_FailedCallGivesOneQuestionPerWord ==
    op = "create_test" /\ pc = "done" /\ resp.kind = "fail" /\ args.questionCount >= 0 =>
        /\ outcome = "returned"
        /\ Len(result.questions) = Min(args.questionCount, Len(args.userWords))
        /\ \A i \in 1..Len(result.questions) :
              LET q == result.questions[i]
                  w == args.userWords[i]
              IN  /\ q.type = "multiple_choice"
                  /\ q.question \in {"Que signifie '" \o w \o "' ?",
                                     "What does '" \o w \o "' mean?"}
                  /\ Len(q.options) = 4
                  /\ q.answer \in Range(q.options)

----------------------------------------------------------------------------
(* Properties of the provider calls *)

\* C24: within one call of an operation the provider is invoked at most once,
\* whatever the number of words and whatever the first invocation gave, and
\* never once the call has entered the fallback path.
C24_ProviderCalledAtMostOnce ==
    [][/\ calls' \in {calls, calls + 1}
       /\ calls' <= 1
       /\ pc = "except" \/ path = "fallback" => calls' = calls]_vars

\* A batch of MaxWords words whose only provider call failed, answered by the
\* fallback.
C24_Witness ==
    /\ svc = "groq" /\ op = "generate_flashcards" /\ pc = "done"
    /\ Len(words) = MaxWords /\ resp.kind = "fail"
    /\ path = "fallback" /\ calls = 1

----------------------------------------------------------------------------
(* Properties of two calls on one instance *)

\* The frame of the running call.
Running ==
    [words |-> words, config |-> config, pc |-> pc, resp |-> resp, cand |-> cand,
     idx |-> idx, result |-> result, outcome |-> outcome, path |-> path, calls |-> calls]

\* A call that has finished ended as a call with its words, its configuration
\* and its provider response ends when it runs alone: GroqService's
\* generate_flashcards taken in one piece, lines 422-719. The prompt raises
\* before the provider is asked; an answer that is no document, a rebuild or
\* a json.loads that raises, a document without metadata and a card whose
\* normalization raises end in the except branch; a document without cards
\* comes back as it is; any other document comes back with each card
\* normalized.
EndsAsAlone(f) ==
    LET w == f.words
        c == f.config
        r == f.resp
        raised == f.outcome = "raised" /\ f.result = NoResult
        fallback ==
            /\ f.outcome = "returned" /\ f.path = "fallback"
            /\ \E hf \in [{x.text : x \in Range(SelectedWords(w, c))} -> 0..3] :
                  LET cs == GroqFallbackCards(w, c, hf)
                  IN  f.result = SessionResult("uuid", TRUE, cs, CountedMeta(Len(cs)),
                                               TRUE, NoneV)
        normalized(doc, p) ==
            IF \E i \in 1..Len(doc.cards) : NormalizeRaises(doc.cards[i], i, c.types)
            THEN fallback
            ELSE /\ f.outcome = "returned" /\ f.path = p
                 /\ Len(f.result.cards) = Len(doc.cards)
                 /\ \A i \in 1..Len(doc.cards) :
                       \E perm \in IF NeedsShuffle(doc.cards[i])
                                   THEN Perms4 ELSE {Identity4} :
                          f.result.cards[i] = NormalizeCard(doc.cards[i], i, c.types, perm)
                 /\ f.result = SessionResult(doc.sessionId, TRUE, f.result.cards,
                                             doc.meta, FALSE, Absent)
    IN  f.pc = "done" =>
           IF r.kind = "none" THEN raised
           ELSE IF r.kind # "doc" THEN fallback
           ELSE IF WantsRebuild(r)
           THEN IF RebuildRaises(r.cards) THEN fallback
                ELSE normalized(Recounted(rebuild_json_structure(r)), "rebuilt")
           ELSE IF ~Fixed(r).wellFormed THEN fallback
           ELSE IF ~r.cardsKey
           THEN /\ f.outcome = "returned" /\ f.path = "provider"
                /\ f.result = SessionResult(Parsed(r).sessionId, FALSE, <<>>, r.meta,
                                            FALSE, Absent)
           ELSE IF ~r.meta.present THEN fallback
           ELSE normalized(Recounted(Parsed(Fixed(r))), "provider")

\* C27: two generate_flashcards calls that run concurrently on one service
\* instance do not affect each other. Under every interleaving each of the
\* two calls, once finished, has the outcome and the result a call with the
\* same words, configuration and provider response has when it runs alone;
\* no step writes a field of the service; and the frame of the waiting call
\* changes only when that call is resumed, with the values it was left with.
C27_ConcurrentCallsDoNotInterfere ==
    /\ [](EndsAsAlone(Running) /\ EndsAsAlone(other))
    /\ [][/\ service' = service
          /\ other' # other => other' = Running /\ Running' = other]_vars

\* One call has returned the cards of the provider's document, normalized,
\* after the other call, made for other words, was left in the middle of its
\* normalization loop.
C27_Witness ==
    /\ svc = "groq" /\ op = "generate_flashcards"
    /\ pc = "done" /\ outcome = "returned" /\ path # "fallback" /\ calls = 1
    /\ Len(result.cards) = MaxCards
    /\ other.pc = "normalize" /\ other.idx = 2 /\ Len(other.cand.cards) = MaxCards
    /\ other.calls = 1
    /\ words # other.words

====
